---- MODULE Spec2Model ----
(***************************************************************************)
(* Model of the recurring task scheduler (utils/scheduler.ts) and of the   *)
(* position reconciliation engine (src/utils/positionMonitor.ts) with its  *)
(* file store (src/models/PositionStore.ts).                               *)
(*                                                                         *)
(* Time is the value of Date.now() in milliseconds.  The clock advances in *)
(* steps of one poll period; any number of handlers may run at one clock   *)
(* value, in any order, as the event loop allows.                          *)
(***************************************************************************)
EXTENDS Integers, Sequences, FiniteSets, TLC

\* ---------------------------------------------------------------------------
\* Bounds of the model
\* ---------------------------------------------------------------------------
MaxTicks == 2
MaxCalls == 3

\* ---------------------------------------------------------------------------
\* Program constants
\* ---------------------------------------------------------------------------
pollInterval == 1000

NoTime == 0 - 1
MaxTime == MaxTicks * pollInterval

\* The id that no registration ever produces, used for calls with an
\* unknown id.
UnknownId == <<NoTime, 0>>

\* The callbacks a task is registered with (the field fn): one that stands for
\* any callback and settles as it pleases, and the monitor's
\* `() => this.checkAllActivePositions()`.
AnyFn == "fn"
CheckAllFn == "checkAllActivePositions"

\* The task specifications passed to registerTask: one whose timeout spans
\* two poll periods and one whose timeout is shorter than a poll period.
TaskSpecs ==
  {[interval |-> pollInterval, maxRetries |-> 2, retryDelay |-> pollInterval,
    timeout |-> 2 * pollInterval],
   [interval |-> pollInterval, maxRetries |-> 1, retryDelay |-> pollInterval,
    timeout |-> pollInterval \div 2]}

VARIABLES
  now,        \* Date.now()
  objs,       \* the ScheduledTask objects created so far (the heap)
  tasks,      \* TaskScheduler.tasks: id -> index of the task object
  running,    \* TaskScheduler.running
  timers,     \* due times of the pending setTimeout(() => this.poll())
  execs,      \* executions of executeTask suspended at `await task.runningPromise`
  hist,       \* per task object: what has happened to it (history variable)
  emitted,    \* the events emitted by the last step
  calls,      \* the number of public calls made so far
  ret         \* what the last step handed to a caller: a return value, a
              \* thrown error, or the settlement of a runTaskNow promise

schedVars == <<now, objs, tasks, running, timers, execs, hist, emitted, calls, ret>>

\* The state of the position monitor and of its file store.
VARIABLES
  telegramBot,  \* PositionMonitor.telegramBot is set
  walletMap,    \* FileUserWalletMapStorage: the chat ids mapped to Wallet
  positions,    \* FilePositionStorage.positions (the Map in memory)
  histories,    \* FilePositionStorage.histories
  file,         \* positions.json as last written by saveData
  checks,       \* the checkPositionStatus calls in flight
  outcome,      \* per position: what its last finished check did
  snap,         \* per position: the lastStatus its last check wrote (history variable)
  started,      \* the number of checks started so far
  bulks,        \* the checkAllActivePositions calls made so far
  monitorTaskId,   \* PositionMonitor.monitorTaskId
  monitorInterval, \* PositionMonitor.monitorInterval
  storage,      \* which PositionStorage the store is: "file" or "prisma"
  dbCalls,      \* the storage calls suspended between two database queries
  positionStorage  \* the positions Map of the handlers' FilePositionStorage
                   \* (src/bot.ts line 22)

\* The monitor's wiring and its store, which no scheduler operation touches.
storeVars ==
  <<positionStorage, storage, dbCalls, telegramBot, walletMap, positions,
    histories, file, outcome, snap>>

monVars == <<storeVars, checks, started, bulks, monitorTaskId, monitorInterval>>

vars == <<schedVars, monVars>>

\* ---------------------------------------------------------------------------
\* Helpers
\* ---------------------------------------------------------------------------
RECURSIVE Pow2(_)
Pow2(n) == IF n <= 0 THEN 1 ELSE 2 * Pow2(n - 1)

\* A registry that never forgets a task.
Registered_EverRegistered == DOMAIN objs

\* The task objects the registry holds (this.tasks.values()).
Registered == {tasks[i] : i \in DOMAIN tasks}

ExecsOf(o) == {e \in execs : e.obj = o}

FreshN(o) == CHOOSE n \in 0..Cardinality(execs) : \A e \in ExecsOf(o) : e.n # n

\* The record of an execution that starts at time t.  `abandoned` is a
\* history field: whether a poll cycle has given up on the execution (lines
\* 215-217).
NewExec(o, t, byPoll) ==
  [obj |-> o, n |-> FreshN(o), start |-> t, byPoll |-> byPoll,
   abandoned |-> FALSE]

RECURSIVE InsertSorted(_, _)
InsertSorted(s, d) ==
  IF s = <<>> THEN <<d>>
  ELSE IF d <= Head(s) THEN <<d>> \o s
  ELSE <<Head(s)>> \o InsertSorted(Tail(s), d)

RemoveAt(s, i) == SubSeq(s, 1, i - 1) \o SubSeq(s, i + 1, Len(s))

\* What a step hands to a caller.
NoRet == [op |-> "none", value |-> "undefined"]
Returned(op, value) == [op |-> op, value |-> value]

\* The value a callback resolves with and the error it rejects with, one of
\* each per execution.
ResultOf(e) == <<"result", e.obj, e.n>>
ErrorOf(e) == <<"error", e.obj, e.n>>

HistInit == [ranNow |-> FALSE, timedOut |-> FALSE, fails |-> 0, clean |-> TRUE]

\* The values of Math.floor(Math.random() * 1000) that registerTask may draw
\* (line 73).  Only equality of ids matters, so the draw is either a value
\* already drawn in this millisecond (the new id equals an earlier one) or
\* the least value not drawn yet in this millisecond (a fresh id).
RandDrawn == {objs[o].id[2] : o \in {x \in DOMAIN objs : objs[x].id[1] = now}}

RandValues == RandDrawn \cup {Cardinality(RandDrawn)}

\* ---------------------------------------------------------------------------
\* executeTask, split at its await
\* ---------------------------------------------------------------------------

\* executeTask up to `await task.runningPromise` (lines 240-256).
BeginExecution(task, t) ==
  [task EXCEPT !.lastRunTime = t,
               !.nextRunTime = t + task.interval,
               !.runningPromise = TRUE]

\* executeTask after the awaited promise resolved (lines 258-272).
OnSuccess(task) ==
  [task EXCEPT !.retryAttempts = 0, !.runningPromise = FALSE]

\* Mutant of RetryDelayFor: the same delay for every retry (no backoff).
RetryDelayFor_Flat(task, n) == task.retryDelay

\* The backoff delay computed for the retry number n (line 290).
RetryDelayFor(task, n) == task.retryDelay * Pow2(n - 1)

\* executeTask after the awaited promise rejected (lines 273-311).
OnFailure(task, t) ==
  IF task.retryAttempts < task.maxRetries
  THEN [task EXCEPT !.runningPromise = FALSE,
                    !.retryAttempts = task.retryAttempts + 1,
                    !.nextRunTime = t + RetryDelayFor(task, task.retryAttempts + 1)]
  ELSE [task EXCEPT !.runningPromise = FALSE,
                    !.retryAttempts = 0]

\* The events emitted by the failure path (lines 303-308).
FailureEvents(task) ==
  IF task.retryAttempts < task.maxRetries
  THEN <<>>
  ELSE <<[type |-> "taskFailed", taskId |-> task.id]>>

\* What the settlement of execution e does to the scheduler: the rest of
\* executeTask after its await (lines 258-272 when the callback resolved,
\* lines 273-311 when it rejected).  The result or the error reaches the
\* caller of runTaskNow; poll drops the result and logs the error (lines
\* 223-229).
ExecSettles(e, resolved) ==
  /\ objs' = [objs EXCEPT ![e.obj] = IF resolved THEN OnSuccess(@)
                                     ELSE OnFailure(@, now)]
  /\ execs' = execs \ {e}
  /\ hist' = IF resolved
             THEN [hist EXCEPT ![e.obj].fails = 0, ![e.obj].clean = TRUE]
             ELSE [hist EXCEPT ![e.obj].fails = @ + 1]
  /\ emitted' = IF resolved
                THEN <<[type |-> "taskComplete", taskId |-> objs[e.obj].id]>>
                ELSE FailureEvents(objs[e.obj])
  /\ ret' = IF e.byPoll THEN NoRet
            ELSE IF resolved THEN Returned("runTaskNow resolved", ResultOf(e))
            ELSE Returned("runTaskNow rejected", ErrorOf(e))
  /\ UNCHANGED <<now, tasks, running, timers, calls>>

\* ---------------------------------------------------------------------------
\* poll, per task (the body of this.tasks.forEach, lines 202-231)
\* ---------------------------------------------------------------------------
TimeElapsed(task, t) ==
  IF task.lastRunTime # NoTime THEN t - task.lastRunTime ELSE 0

\* A poll that never gives up on a running execution.
TimedOut_Never(task, t) == FALSE

\* The timeout test of lines 206-208.
TimedOut(task, t) ==
  task.runningPromise /\ task.timeout # 0 /\ TimeElapsed(task, t) > task.timeout

\* Mutant of Abandon: the marker is cleared but the task is not rescheduled.
Abandon_NoReschedule(task, t) == [task EXCEPT !.runningPromise = FALSE]

\* Lines 215-217.
Abandon(task, t) ==
  [task EXCEPT !.runningPromise = FALSE, !.nextRunTime = t + task.interval]

AfterTimeoutCheck(task, t) ==
  IF TimedOut(task, t) THEN Abandon(task, t) ELSE task

\* Mutant of ShouldExecute: the running marker is not consulted.
ShouldExecute_IgnoresRunning(task, t) ==
  task.nextRunTime # NoTime /\ t >= task.nextRunTime

\* The test of line 222.
ShouldExecute(task, t) ==
  ~task.runningPromise /\ task.nextRunTime # NoTime /\ t >= task.nextRunTime

\* The task objects that a poll at time t over the registered objects reg of
\* the heap os abandons / starts.
PollAbandonsOn(os, reg, t) ==
  {o \in reg : os[o].enabled /\ TimedOut(os[o], t)}

PollStartsOn(os, reg, t) ==
  {o \in reg : os[o].enabled /\ ShouldExecute(AfterTimeoutCheck(os[o], t), t)}

PollAbandons(t) == PollAbandonsOn(objs, Registered, t)

PollStarts(t) == PollStartsOn(objs, Registered, t)

PollTask(task, t) ==
  IF ~task.enabled THEN task
  ELSE LET checked == AfterTimeoutCheck(task, t)
       IN IF ShouldExecute(checked, t) THEN BeginExecution(checked, t) ELSE checked

\* ===========================================================================
\* The position reconciliation engine (src/utils/positionMonitor.ts) over its
\* file store (src/models/PositionStore.ts)
\* ===========================================================================

\* The value of monitorTaskId while no monitoring task is registered
\* (undefined, line 15 and line 68).
UndefinedId == <<NoTime, NoTime>>

\* The interval and the retry policy of the monitoring task (lines 16, 47-49).
DefaultMonitorInterval == 10 * 1000
MonitorMaxRetries == 3
MonitorRetryDelay == 30000
MonitorTimeout == 2 * 60 * 1000

\* Prices are counted in units of 1/PriceScale, the drift threshold 0.0001 of
\* fetchPositionStatus being one unit.
PriceScale == 10000

\* The position of the test suite: bins 100..200, prices 20.0..25.0, chat 12345.
TestLowerBinId == 100
TestUpperBinId == 200
TestChatId == 12345
TestLowerPrice == 20 * PriceScale
TestUpperPrice == 25 * PriceScale

\* JavaScript's undefined and null, where a number or an object may be absent.
Undef == 0 - 1
Null == 0 - 2

\* A time before the process started, at which the stored positions were
\* last updated.
BeforeStart == 0 - 5

\* Date.prototype.toISOString and new Date(string): the string holds the
\* time to the millisecond.
toISOString(t) == <<"ISO", t>>
NewDate(str) == str[2]

\* The ids of the stored positions, in the insertion order of the store's Map.
PositionIds == <<"p1", "p2">>
Wallet == "w1"

\* The active bins the pool reports, with the price per token of each (22.5
\* and 30.0).
ActiveBins == {150, 250}
PricePerToken(bin) == IF bin = 150 THEN (45 * PriceScale) \div 2 ELSE 30 * PriceScale

\* The on-chain position records the pool may report for the position (liquidity
\* amounts, pending and claimed fees, rewards, last update).
NoFees == [pending |-> Null, claimed |-> Null]
UndefFees == [pending |-> Undef, claimed |-> Undef]
OnChainRecords ==
  {[liquidity |-> 1, fees |-> [pending |-> 1, claimed |-> 1], rewards |-> 1,
    lastUpdatedAt |-> 1],
   [liquidity |-> 2, fees |-> [pending |-> 2, claimed |-> 1], rewards |-> 1,
    lastUpdatedAt |-> 2]}

\* The outcomes of the enrichment part of fetchPositionStatus (lines 160-261):
\* it throws, or it finds no matching on-chain position and bin prices two
\* units from the position's limits (beyond the threshold), or it finds a
\* matching position and bin prices one unit from the limits (within it).
AnyRecord == CHOOSE r \in OnChainRecords : r.liquidity = 1
Enrichments ==
  {[kind |-> "failed", oc |-> AnyRecord, drift |-> 1]}
  \cup {[kind |-> "nomatch", oc |-> AnyRecord, drift |-> 2]}
  \cup {[kind |-> "found", oc |-> r, drift |-> 1] : r \in OnChainRecords}

\* Bound: the number of checkPositionStatus calls started.
MaxChecks == 2

NoStatus ==
  [defined |-> FALSE, activeBin |-> Undef, currentPrice |-> Undef,
   binInRange |-> FALSE, timestamp |-> Undef,
   currentLowerPrice |-> Undef, currentUpperPrice |-> Undef,
   liquidityX |-> Undef, fees |-> UndefFees, rewards |-> Undef,
   lastUpdatedAt |-> Undef]

\* serializePosition, lines 46-57: of lastStatus only activeBin, currentPrice,
\* binInRange and the timestamp are written.
SerializeLastStatus(ls) ==
  IF ~ls.defined THEN NoStatus
  ELSE [NoStatus EXCEPT !.defined = TRUE,
                        !.activeBin = ls.activeBin,
                        !.currentPrice = ls.currentPrice,
                        !.binInRange = ls.binInRange,
                        !.timestamp = toISOString(ls.timestamp)]

\* serializePosition (lines 32-60) on the fields of the model.
serializePosition(position) ==
  [position EXCEPT !.updatedAt = toISOString(position.updatedAt),
                   !.lastStatus = SerializeLastStatus(position.lastStatus)]

\* deserializePosition (lines 65-88): the stored lastStatus is spread as it
\* is, but for its timestamp.
deserializePosition(data) ==
  [data EXCEPT !.updatedAt = NewDate(data.updatedAt),
               !.lastStatus = IF data.lastStatus.defined
                              THEN [data.lastStatus EXCEPT
                                      !.timestamp = NewDate(data.lastStatus.timestamp)]
                              ELSE data.lastStatus]

\* What saveData writes to positions.json (lines 164-172).
SavedFile(posMap) == [id \in DOMAIN posMap |-> serializePosition(posMap[id])]

\* What loadData reads back (lines 133-141).
LoadedPositions(f) == [id \in DOMAIN f |-> deserializePosition(f[id])]

InitialPosition(id, chat) ==
  [id |-> id, status |-> "active", userWallet |-> Wallet, chatId |-> chat,
   lowerBinId |-> TestLowerBinId, upperBinId |-> TestUpperBinId,
   lowerPriceLimit |-> TestLowerPrice, upperPriceLimit |-> TestUpperPrice,
   updatedAt |-> BeforeStart, lastStatus |-> NoStatus]

NoOutcome ==
  [finished |-> FALSE, ok |-> FALSE, first |-> FALSE, solo |-> FALSE,
   binInRange |-> FALSE, sendCalls |-> 0, delivered |-> 0, sections |-> {},
   priceRangeChanged |-> FALSE, flipped |-> FALSE, sameOnChain |-> FALSE]

StoredIds == {PositionIds[i] : i \in DOMAIN PositionIds}

\* ---------------------------------------------------------------------------
\* fetchPositionStatus (lines 144-262)
\* ---------------------------------------------------------------------------

\* A range test that leaves the two boundary bins out.
BinInRange_Exclusive(position, activeBinId) ==
  activeBinId > position.lowerBinId /\ activeBinId < position.upperBinId

\* Line 158.
BinInRange(position, activeBinId) ==
  activeBinId >= position.lowerBinId /\ activeBinId <= position.upperBinId

Abs(x) == IF x < 0 THEN 0 - x ELSE x

\* Lines 226-228, the threshold 0.0001 being one unit.
PriceRangeChanged(position, lower, upper) ==
  Abs(lower - position.lowerPriceLimit) > 1 \/ Abs(upper - position.upperPriceLimit) > 1

\* The status object fetchPositionStatus returns for the fetched active bin
\* and the outcome of the enrichment.
FetchedStatus(position, activeBinId, enr) ==
  LET basic == [activeBin |-> activeBinId,
                binInRange |-> BinInRange(position, activeBinId),
                currentPrice |-> PricePerToken(activeBinId),
                timestamp |-> now,
                degraded |-> TRUE,
                currentLowerPrice |-> Undef, currentUpperPrice |-> Undef,
                priceRangeChanged |-> FALSE,
                onChainPosition |-> FALSE,
                liquidityX |-> Undef, fees |-> UndefFees, rewards |-> Undef,
                lastUpdatedAt |-> Undef]
      lower == position.lowerPriceLimit + enr.drift
      upper == position.upperPriceLimit + enr.drift
      ranged == [basic EXCEPT !.degraded = FALSE,
                              !.currentLowerPrice = lower,
                              !.currentUpperPrice = upper,
                              !.priceRangeChanged =
                                 PriceRangeChanged(position, lower, upper)]
  IN CASE enr.kind = "failed" -> basic
       [] enr.kind = "nomatch" ->
            [ranged EXCEPT !.liquidityX = Null, !.fees = NoFees, !.rewards = Null]
       [] OTHER ->
            [ranged EXCEPT !.onChainPosition = TRUE,
                           !.liquidityX = enr.oc.liquidity,
                           !.fees = enr.oc.fees,
                           !.rewards = enr.oc.rewards,
                           !.lastUpdatedAt = enr.oc.lastUpdatedAt]

\* The lastStatus that savePositionStatus writes (lines 300-315).
NewLastStatus(status) ==
  [defined |-> TRUE, activeBin |-> status.activeBin,
   currentPrice |-> status.currentPrice, binInRange |-> status.binInRange,
   timestamp |-> now,
   currentLowerPrice |-> status.currentLowerPrice,
   currentUpperPrice |-> status.currentUpperPrice,
   liquidityX |-> status.liquidityX, fees |-> status.fees,
   rewards |-> status.rewards,
   lastUpdatedAt |-> IF status.lastUpdatedAt = Undef THEN Null
                     ELSE status.lastUpdatedAt]

\* The history record of a check (lines 288-297) and of updatePosition
\* (lines 329-335).
StatusCheckRecord(position, status) ==
  [positionId |-> position.id, timestamp |-> now, eventType |-> "status_check",
   priceAtEvent |-> status.currentPrice]

UpdatedRecord(id) ==
  [positionId |-> id, timestamp |-> now, eventType |-> "updated",
   priceAtEvent |-> Undef]

\* ---------------------------------------------------------------------------
\* The state after construction
\* ---------------------------------------------------------------------------

\* The lastStatus and the history records left by a check of an earlier run,
\* which found the position in range with the first on-chain record.
EarlierStatus ==
  NewLastStatus(FetchedStatus(InitialPosition(PositionIds[1], Undef), 150,
                              [kind |-> "found", oc |-> AnyRecord, drift |-> 1]))

EarlierRecords(id) ==
  <<StatusCheckRecord(InitialPosition(id, Undef), EarlierStatus), UpdatedRecord(id)>>

\* How the process is wired at start-up (src/bot.ts line 28 sets telegramBot):
\* whether a bot is set, the chat ids mapped to the wallet, and the chatId
\* stored on the first position.
Wirings ==
  {[bot |-> TRUE, map |-> <<TestChatId>>, chat |-> Undef],
   [bot |-> TRUE, map |-> <<>>, chat |-> TestChatId],
   [bot |-> TRUE, map |-> <<>>, chat |-> Undef],
   [bot |-> FALSE, map |-> <<TestChatId>>, chat |-> TestChatId]}

\* The monitor right after construction: the store has loaded positions.json
\* (loadData, lines 133-159).  The first position was either never checked, or
\* checked by an earlier run of the process, whose lastStatus and history
\* records the files hold; the second position was never checked.
MonInit ==
  /\ \E w \in Wirings, earlier \in {NoStatus, EarlierStatus} :
       /\ telegramBot = w.bot
       /\ walletMap = w.map
       /\ snap = [id \in StoredIds |->
                    IF id = PositionIds[1] THEN earlier ELSE NoStatus]
       /\ file = [id \in StoredIds |->
                    serializePosition(
                      [InitialPosition(id, IF id = PositionIds[1] THEN w.chat
                                           ELSE TestChatId)
                         EXCEPT !.lastStatus = snap[id]])]
       /\ histories = [id \in StoredIds |->
                         IF snap[id].defined THEN EarlierRecords(id) ELSE <<>>]
  /\ positions = LoadedPositions(file)
  /\ positionStorage = LoadedPositions(file)
  /\ storage = "file"
  /\ dbCalls = {}
  /\ checks = {}
  /\ outcome = [id \in StoredIds |-> NoOutcome]
  /\ started = 0
  /\ bulks = <<>>
  /\ monitorTaskId = UndefinedId
  /\ monitorInterval = DefaultMonitorInterval

\* ---------------------------------------------------------------------------
\* checkForNotifications (lines 323-485)
\* ---------------------------------------------------------------------------
Truthy(x) == x # Undef /\ x # Null

\* getChatIdForWallet (lines 491-513): the first mapped chat id, else the
\* chatId of the first stored position of the wallet.
getChatIdForWallet(wallet) ==
  IF Len(walletMap) > 0 THEN walletMap[1]
  ELSE LET owned == SelectSeq(PositionIds,
                              LAMBDA id : positions[id].userWallet = wallet)
       IN IF Len(owned) > 0 /\ Truthy(positions[owned[1]].chatId)
          THEN positions[owned[1]].chatId
          ELSE Null

\* The on-chain categories reported as changed (lines 434-461).
OnChainChanges(lastStatus, status) ==
  IF ~(status.onChainPosition /\ lastStatus.defined) THEN {}
  ELSE (IF lastStatus.liquidityX # status.liquidityX THEN {"liquidity"} ELSE {})
       \cup (IF Truthy(status.fees.pending) /\ Truthy(lastStatus.fees.pending)
                /\ lastStatus.fees.pending # status.fees.pending
             THEN {"pending fees"} ELSE {})
       \cup (IF Truthy(status.fees.pending) /\ Truthy(lastStatus.fees.pending)
                /\ lastStatus.fees.claimed # status.fees.claimed
             THEN {"claimed fees"} ELSE {})
       \cup (IF Truthy(status.rewards) /\ Truthy(lastStatus.rewards)
                /\ lastStatus.rewards # status.rewards
             THEN {"rewards"} ELSE {})

\* Mutant of FirstCheckSection: the first check is announced only when the
\* position is in range.
FirstCheckSection_InRangeOnly(lastStatus, status) ==
  IF ~lastStatus.defined /\ status.binInRange THEN {"now being monitored"} ELSE {}

\* Lines 410-414.
FirstCheckSection(lastStatus, status) ==
  IF ~lastStatus.defined THEN {"now being monitored"} ELSE {}

\* Mutant of RangeFlipSection: every out-of-range check is announced.
RangeFlipSection_EveryOutOfRange(lastStatus, status) ==
  IF lastStatus.defined /\ ~status.binInRange THEN {"now out of range"}
  ELSE IF lastStatus.defined /\ lastStatus.binInRange # status.binInRange
       THEN {"now in range"} ELSE {}

\* Lines 422-431.
RangeFlipSection(lastStatus, status) ==
  IF lastStatus.defined /\ lastStatus.binInRange # status.binInRange
  THEN (IF status.binInRange THEN {"now in range"} ELSE {"now out of range"})
  ELSE {}

\* The sections that set shouldNotify (lines 405-467), for the lastStatus of
\* the position object the check was called with.
NotifySections(lastStatus, status) ==
  FirstCheckSection(lastStatus, status)
  \cup (IF status.priceRangeChanged THEN {"price range has changed"} ELSE {})
  \cup RangeFlipSection(lastStatus, status)
  \cup (IF OnChainChanges(lastStatus, status) # {}
        THEN {"on-chain updates detected"} ELSE {})

\* ---------------------------------------------------------------------------
\* checkPositionStatus (lines 121-139), one action per resumption
\* ---------------------------------------------------------------------------
ChecksOf(id) == {c \in checks : c.pid = id}

FreshCheckN == CHOOSE n \in 0..Cardinality(checks) : \A c \in checks : c.n # n

SameOnChain(a, b) ==
  a.liquidityX = b.liquidityX /\ a.fees = b.fees /\ a.rewards = b.rewards

\* What a finished check leaves in `outcome`: whether it was the first check of
\* the position object, whether it ran alone, the sendMessage calls it made
\* and how many of them resolved, with the sections of the message, and how
\* its status compares with the lastStatus written by the previous finished
\* check.
Finish(c, sendCalls, delivered, sections) ==
  outcome' = [outcome EXCEPT ![c.pid] =
    [finished |-> TRUE, ok |-> TRUE, first |-> ~c.position.lastStatus.defined,
     solo |-> c.solo, binInRange |-> c.status.binInRange,
     sendCalls |-> sendCalls, delivered |-> delivered, sections |-> sections,
     priceRangeChanged |-> c.status.priceRangeChanged,
     flipped |-> c.before.defined /\ c.before.binInRange # c.status.binInRange,
     sameOnChain |-> c.before.defined /\ SameOnChain(c.before, c.status)]]

NotYetFetched ==
  FetchedStatus(InitialPosition(PositionIds[1], Undef),
                CHOOSE b \in ActiveBins : b = 150,
                CHOOSE e \in Enrichments : e.kind = "failed")

\* ---------------------------------------------------------------------------
\* checkAllActivePositions (lines 93-116)
\* ---------------------------------------------------------------------------

\* A bulk check over every stored position, whatever its status.
ActiveIds_EveryStored ==
  SelectSeq(PositionIds, LAMBDA id : id \in DOMAIN positions)

\* Lines 96-97: the stored positions whose status is ACTIVE, in the order of
\* the Map.
ActiveIds ==
  SelectSeq(PositionIds,
            LAMBDA id : id \in DOMAIN positions /\ positions[id].status = "active")

\* The execution a bulk check is the callback of: <<task object, n>>, or
\* NoExec when checkAllActivePositions was called directly.
NoExec == <<0, 0>>

\* The k least numbers that no check in `used` carries.
RECURSIVE FreshNs(_, _)
FreshNs(used, k) ==
  IF k = 0 THEN <<>>
  ELSE LET n == CHOOSE m \in 0..Cardinality(used) : m \notin used
       IN <<n>> \o FreshNs(used \cup {n}, k - 1)

\* The checks, the bulk calls and the count of checks of the current state.
MonState == [checks |-> checks, bulks |-> bulks, started |-> started]

\* checkAllActivePositions up to `await Promise.all(checkPromises)` (lines
\* 94-106): one checkPositionStatus call per ACTIVE position, each run to its
\* first await on the network.  Promise.all of no promise is resolved.
BeginBulkOn(st, execRef) ==
  LET active == ActiveIds
      b == Len(st.bulks) + 1
      ns == FreshNs({c.n : c \in st.checks}, Len(active))
      members == {active[k] : k \in DOMAIN active}
  IN [checks |->
        {[c EXCEPT !.solo = @ /\ c.pid \notin members] : c \in st.checks}
        \cup {[pid |-> active[k], n |-> ns[k], pc |-> "fetch",
                position |-> positions[active[k]], before |-> snap[active[k]],
                solo |-> \A c \in st.checks : c.pid # active[k],
                status |-> NotYetFetched, bulk |-> b,
                via |-> "checkAllActivePositions"] : k \in DOMAIN active},
      bulks |-> Append(st.bulks,
                       [members |-> active,
                        pending |-> {ns[k] : k \in DOMAIN active},
                        state |-> IF active = <<>> THEN "resolved" ELSE "pending",
                        exec |-> execRef, writtenAtRejection |-> <<>>]),
      started |-> st.started + Len(active)]

\* One bulk check per execution of the monitoring task begun in a step.
RECURSIVE BeginBulks(_, _)
BeginBulks(st, execRefs) ==
  IF execRefs = <<>> THEN st
  ELSE BeginBulks(BeginBulkOn(st, Head(execRefs)), Tail(execRefs))

\* The step leaves the checks and the bulk calls as st has them, within the
\* budget of checks of the model.
SetMonState(st) ==
  /\ st.started <= MaxChecks
  /\ checks' = st.checks
  /\ bulks' = st.bulks
  /\ started' = st.started

\* Promise.all (line 106) after member c of bulk call b settled: it rejects
\* with the first member that rejects and resolves when every member has
\* resolved; once settled it stays as it is.  writtenAtRejection is a history
\* field: how many history records each position had when the call rejected.
BulkAfter(b, c, ok) ==
  [b EXCEPT !.pending = @ \ {c.n},
            !.state = IF @ # "pending" THEN @
                      ELSE IF ~ok THEN "rejected"
                      ELSE IF b.pending \ {c.n} = {} THEN "resolved"
                      ELSE "pending",
            !.writtenAtRejection =
                      IF b.state = "pending" /\ ~ok
                      THEN [id \in StoredIds |-> Len(histories[id])]
                      ELSE @]

\* Check c returns (ok) or throws (~ok).  When it is a member of a bulk call
\* that settles with it, and the bulk call is the callback of a scheduler
\* execution, executeTask resumes in the same turn of the event loop.  When
\* checkNewPosition awaits it, checkNewPosition resumes: after the await it
\* returns, and its catch block logs the error and falls off the end.
CheckSettles(c, ok) ==
  IF c.bulk = 0
  THEN /\ UNCHANGED bulks
       /\ IF c.via = "checkNewPosition"
          THEN /\ ret' = Returned("checkNewPosition", "returned")
               /\ emitted' = <<>>
               /\ UNCHANGED <<now, objs, tasks, running, timers, execs, hist,
                              calls>>
          ELSE UNCHANGED schedVars
  ELSE LET after == BulkAfter(bulks[c.bulk], c, ok)
           settles == bulks[c.bulk].state = "pending" /\ after.state # "pending"
           es == {e \in execs : <<e.obj, e.n>> = after.exec}
       IN /\ bulks' = [bulks EXCEPT ![c.bulk] = after]
          /\ IF settles /\ es # {}
             THEN ExecSettles(CHOOSE e \in es : TRUE, after.state = "resolved")
             ELSE UNCHANGED schedVars

\* A caller passes the stored position object id to checkPositionStatus,
\* which runs up to its first await on the network.  `before` and `solo` are
\* history fields: the lastStatus the last finished check of the position
\* wrote, and whether no other check of the position has been in flight
\* together with this one.
startCheck(id) ==
  /\ started < MaxChecks
  /\ started' = started + 1
  /\ checks' = {[c EXCEPT !.solo = @ /\ c.pid # id] : c \in checks}
               \cup {[pid |-> id, n |-> FreshCheckN, pc |-> "fetch",
                      position |-> positions[id], before |-> snap[id],
                      solo |-> ChecksOf(id) = {}, status |-> NotYetFetched,
                      bulk |-> 0, via |-> "checkPositionStatus"]}
  /\ UNCHANGED <<storeVars, bulks, monitorTaskId, monitorInterval>>
  /\ UNCHANGED schedVars

\* A failing check that takes back what the other checks have written.
fetchFails_RollsBack(c) ==
  /\ c.pc = "fetch"
  /\ checks' = checks \ {c}
  /\ outcome' = [outcome EXCEPT ![c.pid] =
                   [NoOutcome EXCEPT !.finished = TRUE, !.solo = c.solo,
                                     !.first = ~c.position.lastStatus.defined]]
  /\ CheckSettles(c, FALSE)
  /\ histories' = [id \in DOMAIN histories |-> <<>>]
  /\ positions' = [id \in DOMAIN positions |->
                     [positions[id] EXCEPT !.lastStatus = NoStatus]]
  /\ file' = SavedFile(positions')
  /\ UNCHANGED <<positionStorage, storage, dbCalls, telegramBot, walletMap, snap, started>>
  /\ UNCHANGED <<monitorTaskId, monitorInterval>>

\* A failing check that marks its position as no longer monitored.
fetchFails_ForgetsStatus(c) ==
  /\ c.pc = "fetch"
  /\ checks' = checks \ {c}
  /\ outcome' = [outcome EXCEPT ![c.pid] =
                   [NoOutcome EXCEPT !.finished = TRUE, !.solo = c.solo,
                                     !.first = ~c.position.lastStatus.defined]]
  /\ CheckSettles(c, FALSE)
  /\ positions' = [positions EXCEPT ![c.pid].lastStatus = NoStatus]
  /\ file' = SavedFile(positions')
  /\ UNCHANGED <<positionStorage, storage, dbCalls, telegramBot, walletMap, histories, snap, started>>
  /\ UNCHANGED <<monitorTaskId, monitorInterval>>

\* A failing check that reports its error to the chat.
fetchFails_ReportsToChat(c) ==
  /\ c.pc = "fetch"
  /\ checks' = (checks \ {c}) \cup {[c EXCEPT !.pc = "send"]}
  /\ UNCHANGED <<storeVars, started, bulks, monitorTaskId, monitorInterval>>
  /\ UNCHANGED schedVars

\* DLMM.create or getActiveBin rejects (lines 146-153): the check rejects
\* (lines 132-138) with nothing saved and nothing sent.
fetchFails(c) ==
  /\ c.pc = "fetch"
  /\ checks' = checks \ {c}
  /\ outcome' = [outcome EXCEPT ![c.pid] =
                   [NoOutcome EXCEPT !.finished = TRUE, !.solo = c.solo,
                                     !.first = ~c.position.lastStatus.defined]]
  /\ CheckSettles(c, FALSE)
  /\ UNCHANGED <<positionStorage, storage, dbCalls, telegramBot, walletMap, positions, histories, file, snap, started>>
  /\ UNCHANGED <<monitorTaskId, monitorInterval>>

\* A savePositionStatus that merges the new lastStatus into the previous one,
\* keeping the on-chain fields the new status does not carry.
savePositionStatus_Merges(c, status) ==
  LET old == positions[c.pid].lastStatus
      new == NewLastStatus(status)
      merged == IF old.defined /\ new.liquidityX = Undef
                THEN [new EXCEPT !.liquidityX = old.liquidityX, !.fees = old.fees,
                                 !.rewards = old.rewards,
                                 !.lastUpdatedAt = old.lastUpdatedAt]
                ELSE new
  IN /\ positions' = [positions EXCEPT ![c.pid].lastStatus = merged,
                                       ![c.pid].updatedAt = now]
     /\ histories' = [histories EXCEPT ![c.pid] =
                        @ \o <<StatusCheckRecord(c.position, status), UpdatedRecord(c.pid)>>]
     /\ file' = SavedFile(positions')
     /\ snap' = [snap EXCEPT ![c.pid] = merged]

\* savePositionStatus (lines 267-318): savePositionHistory appends the
\* status_check record (lines 373-379), then updatePosition overwrites
\* lastStatus, appends the 'updated' record and saves (lines 313-343).
savePositionStatus(c, status) ==
  /\ positions' = [positions EXCEPT ![c.pid].lastStatus = NewLastStatus(status),
                                    ![c.pid].updatedAt = now]
  /\ histories' = [histories EXCEPT ![c.pid] =
                     @ \o <<StatusCheckRecord(c.position, status), UpdatedRecord(c.pid)>>]
  /\ file' = SavedFile(positions')
  /\ snap' = [snap EXCEPT ![c.pid] = NewLastStatus(status)]

\* Whether checkForNotifications reaches sendMessage (lines 324-337, 470-471).
WillSend(c, status) ==
  /\ telegramBot
  /\ Truthy(getChatIdForWallet(c.position.userWallet))
  /\ NotifySections(c.position.lastStatus, status) # {}

\* A check to which a failed enrichment is fatal.
fetchReturns_EnrichmentFatal(c, activeBinId, enr) ==
  /\ c.pc = "fetch"
  /\ LET status == FetchedStatus(c.position, activeBinId, enr)
         d == [c EXCEPT !.status = status]
     IN IF enr.kind = "failed"
        THEN /\ checks' = checks \ {c}
             /\ outcome' = [outcome EXCEPT ![c.pid] =
                              [NoOutcome EXCEPT !.finished = TRUE, !.solo = c.solo]]
             /\ CheckSettles(c, FALSE)
             /\ UNCHANGED <<positions, histories, file, snap>>
        ELSE /\ savePositionStatus(c, status)
             /\ IF WillSend(c, status)
                THEN /\ checks' = (checks \ {c}) \cup {[d EXCEPT !.pc = "send"]}
                     /\ UNCHANGED outcome
                     /\ UNCHANGED bulks /\ UNCHANGED schedVars
                ELSE /\ checks' = checks \ {c}
                     /\ Finish(d, 0, 0, {})
                     /\ CheckSettles(c, TRUE)
  /\ UNCHANGED <<positionStorage, storage, dbCalls, telegramBot, walletMap, started, monitorTaskId, monitorInterval>>

\* fetchPositionStatus returns and the check runs on to its next await on the
\* network (lines 125-131): the store operations in between wait on nothing
\* outside the process.  It stops at sendMessage, or returns when
\* checkForNotifications sends nothing.
fetchReturns(c, activeBinId, enr) ==
  /\ c.pc = "fetch"
  /\ LET status == FetchedStatus(c.position, activeBinId, enr)
         d == [c EXCEPT !.status = status]
     IN /\ savePositionStatus(c, status)
        /\ IF WillSend(c, status)
           THEN /\ checks' = (checks \ {c}) \cup {[d EXCEPT !.pc = "send"]}
                /\ UNCHANGED outcome
                /\ UNCHANGED bulks /\ UNCHANGED schedVars
           ELSE /\ checks' = checks \ {c}
                /\ Finish(d, 0, 0, {})
                /\ CheckSettles(c, TRUE)
  /\ UNCHANGED <<positionStorage, storage, dbCalls, telegramBot, walletMap, started, monitorTaskId, monitorInterval>>

\* A rejected sendMessage that escapes checkForNotifications and fails the
\* check.
sendMessageSettles_Propagates(c, delivered) ==
  /\ c.pc = "send"
  /\ checks' = checks \ {c}
  /\ IF delivered = 1
     THEN Finish(c, 1, 1, NotifySections(c.position.lastStatus, c.status))
     ELSE outcome' = [outcome EXCEPT ![c.pid] =
                        [NoOutcome EXCEPT !.finished = TRUE, !.sendCalls = 1]]
  /\ CheckSettles(c, delivered = 1)
  /\ UNCHANGED <<positionStorage, storage, dbCalls, telegramBot, walletMap, positions, histories, file, snap, started>>
  /\ UNCHANGED <<monitorTaskId, monitorInterval>>

\* sendMessage resolves (delivered = 1; lines 471-480) or rejects
\* (delivered = 0; lines 481-483, the catch block logs the error): either way
\* checkForNotifications returns and with it the check.
sendMessageSettles(c, delivered) ==
  /\ c.pc = "send"
  /\ checks' = checks \ {c}
  /\ Finish(c, 1, delivered, NotifySections(c.position.lastStatus, c.status))
  /\ CheckSettles(c, TRUE)
  /\ UNCHANGED <<positionStorage, storage, dbCalls, telegramBot, walletMap, positions, histories, file, snap, started>>
  /\ UNCHANGED <<monitorTaskId, monitorInterval>>

\* sendMessage resolves.
sendResolves(c) == sendMessageSettles(c, 1)

\* sendMessage rejects.
sendRejects(c) == sendMessageSettles(c, 0)

sendSettles(c) == sendResolves(c) \/ sendRejects(c)

\* ---------------------------------------------------------------------------
\* checkPositionStatus await by await (lines 121-139), on a disk that can fail
\* ---------------------------------------------------------------------------

\* How a call of saveData ends (PositionStore.ts lines 163-183): both files
\* written, or writeFileSync throwing on positions.json (nothing written) or
\* on history.json (positions.json written).
SaveResults == {"saved", "positions failed", "history failed"}

\* positions.json after a saveData of the Map posMap that ends with r.
FileAfter(r, posMap) ==
  IF r = "positions failed" THEN file ELSE SavedFile(posMap)

\* An awaited store operation of check c rejects: the catch block logs and
\* throws again (lines 134-138), and nothing after the await has run.
checkRejects(c) ==
  /\ checks' = checks \ {c}
  /\ outcome' = [outcome EXCEPT ![c.pid] =
                   [NoOutcome EXCEPT !.finished = TRUE, !.solo = c.solo,
                                     !.first = ~c.position.lastStatus.defined]]
  /\ CheckSettles(c, FALSE)

\* fetchPositionStatus returns the status (line 125); the check goes on to
\* savePositionStatus.
fetchPositionStatusReturns(c, activeBinId, enr) ==
  /\ c.pc = "fetch"
  /\ checks' = (checks \ {c}) \cup
                 {[c EXCEPT !.status = FetchedStatus(c.position, activeBinId, enr),
                            !.pc = "savePositionHistory"]}
  /\ UNCHANGED <<storeVars, started, bulks, monitorTaskId, monitorInterval>>
  /\ UNCHANGED schedVars

\* savePositionHistory (positionMonitor.ts line 288; PositionStore.ts lines
\* 373-379) pushes the status_check record and awaits saveData, which ends
\* with r.
savePositionHistorySettles(c, r) ==
  /\ c.pc = "savePositionHistory"
  /\ histories' = [histories EXCEPT ![c.pid] =
                     Append(@, StatusCheckRecord(c.position, c.status))]
  /\ file' = FileAfter(r, positions)
  /\ IF r = "saved"
     THEN /\ checks' = (checks \ {c}) \cup {[c EXCEPT !.pc = "updatePosition"]}
          /\ UNCHANGED <<outcome, bulks>>
          /\ UNCHANGED schedVars
     ELSE checkRejects(c)
  /\ UNCHANGED <<positionStorage, storage, dbCalls, telegramBot, walletMap, positions, snap, started>>
  /\ UNCHANGED <<monitorTaskId, monitorInterval>>

\* An updatePosition whose failure savePositionStatus swallows.
updatePositionSettles_Swallows(c, r) ==
  /\ c.pc = "updatePosition"
  /\ positions' = [positions EXCEPT ![c.pid].lastStatus = NewLastStatus(c.status),
                                    ![c.pid].updatedAt = now]
  /\ histories' = [histories EXCEPT ![c.pid] = Append(@, UpdatedRecord(c.pid))]
  /\ file' = FileAfter(r, positions')
  /\ snap' = [snap EXCEPT ![c.pid] = NewLastStatus(c.status)]
  /\ IF WillSend(c, c.status)
     THEN /\ checks' = (checks \ {c}) \cup {[c EXCEPT !.pc = "send"]}
          /\ UNCHANGED <<outcome, bulks>>
          /\ UNCHANGED schedVars
     ELSE /\ checks' = checks \ {c}
          /\ Finish(c, 0, 0, {})
          /\ CheckSettles(c, TRUE)
  /\ UNCHANGED <<positionStorage, storage, dbCalls, telegramBot, walletMap, started>>
  /\ UNCHANGED <<monitorTaskId, monitorInterval>>

\* updatePosition (positionMonitor.ts line 317; PositionStore.ts lines
\* 313-343) overwrites lastStatus, pushes the 'updated' record and awaits
\* saveData, which ends with r.  When it has saved, checkForNotifications
\* runs (line 131) up to sendMessage, or returns with nothing to send.
updatePositionSettles(c, r) ==
  /\ c.pc = "updatePosition"
  /\ positions' = [positions EXCEPT ![c.pid].lastStatus = NewLastStatus(c.status),
                                    ![c.pid].updatedAt = now]
  /\ histories' = [histories EXCEPT ![c.pid] = Append(@, UpdatedRecord(c.pid))]
  /\ file' = FileAfter(r, positions')
  /\ snap' = [snap EXCEPT ![c.pid] = NewLastStatus(c.status)]
  /\ IF r = "saved"
     THEN IF WillSend(c, c.status)
          THEN /\ checks' = (checks \ {c}) \cup {[c EXCEPT !.pc = "send"]}
               /\ UNCHANGED <<outcome, bulks>>
               /\ UNCHANGED schedVars
          ELSE /\ checks' = checks \ {c}
               /\ Finish(c, 0, 0, {})
               /\ CheckSettles(c, TRUE)
     ELSE checkRejects(c)
  /\ UNCHANGED <<positionStorage, storage, dbCalls, telegramBot, walletMap, started>>
  /\ UNCHANGED <<monitorTaskId, monitorInterval>>

\* The checks called one by one and followed through each of their awaits.
CheckStepsNext ==
  \/ \E id \in StoredIds : startCheck(id)
  \/ \E c \in checks : fetchFails(c)
  \/ \E c \in checks, b \in ActiveBins :
       fetchPositionStatusReturns(c, b, CHOOSE enr \in Enrichments : enr.kind = "failed")
  \/ \E c \in checks, r \in SaveResults : savePositionHistorySettles(c, r)
  \/ \E c \in checks, r \in SaveResults : updatePositionSettles(c, r)
  \/ \E c \in checks : sendSettles(c)

\* The process is restarted: the checks in flight are gone and the store is
\* constructed again from its files (constructor and loadData, lines 16-27,
\* 133-159).
restart ==
  /\ positions' = LoadedPositions(file)
  /\ positionStorage' = LoadedPositions(file)
  /\ checks' = {}
  /\ bulks' = <<>>
  /\ monitorTaskId' = UndefinedId
  /\ monitorInterval' = DefaultMonitorInterval
  /\ UNCHANGED <<storage, dbCalls, telegramBot, walletMap, histories, file, outcome, snap, started>>
  /\ UNCHANGED schedVars

\* The checks called one by one, with a Telegram API that delivers.
MonNext ==
  \/ \E id \in StoredIds : startCheck(id)
  \/ \E c \in checks : fetchFails(c)
  \/ \E c \in checks, b \in ActiveBins, enr \in Enrichments : fetchReturns(c, b, enr)
  \/ \E c \in checks : sendResolves(c)
  \/ restart

\* ===========================================================================
\* The scheduler's operations (src/utils/scheduler.ts)
\* ===========================================================================

RECURSIVE Ascending(_)
Ascending(S) ==
  IF S = {} THEN <<>>
  ELSE LET m == CHOOSE x \in S : \A y \in S : x <= y
       IN <<m>> \o Ascending(S \ {m})

\* The effect of one poll cycle that found this.running true (lines 199-234),
\* over the registered objects reg of the heap os.  A task begun with the
\* callback checkAllActivePositions begins a bulk check; when no position is
\* ACTIVE that callback resolves without waiting on anything outside the
\* process, and executeTask finishes within the turn.
PollBodyOn(os, hs, reg, t, pendingTimers) ==
  LET abandons == PollAbandonsOn(os, reg, t)
      starts == PollStartsOn(os, reg, t)
      monitors == Ascending({o \in starts : os[o].fn = CheckAllFn})
      instant == IF ActiveIds = <<>> THEN {o \in starts : os[o].fn = CheckAllFn}
                 ELSE {}
  IN /\ objs' = [o \in DOMAIN os |->
                   IF o \notin reg THEN os[o]
                   ELSE IF o \in instant THEN OnSuccess(PollTask(os[o], t))
                   ELSE PollTask(os[o], t)]
     /\ execs' = {[e EXCEPT !.abandoned = @ \/ e.obj \in abandons] : e \in execs}
                 \cup {NewExec(o, t, TRUE) : o \in starts \ instant}
     /\ hist' = [o \in DOMAIN hs |->
                   LET h == IF o \in abandons THEN [hs[o] EXCEPT !.timedOut = TRUE]
                            ELSE hs[o]
                   IN IF o \in instant THEN [h EXCEPT !.fails = 0, !.clean = TRUE]
                      ELSE h]
     /\ timers' = InsertSorted(pendingTimers, t + pollInterval)
     /\ emitted' = [k \in DOMAIN Ascending(instant) |->
                      [type |-> "taskComplete", taskId |-> os[Ascending(instant)[k]].id]]
     /\ SetMonState(BeginBulks(MonState,
                               [k \in DOMAIN monitors |->
                                  <<monitors[k], FreshN(monitors[k])>>]))

PollBody(t, pendingTimers) == PollBodyOn(objs, hist, Registered, t, pendingTimers)

\* ---------------------------------------------------------------------------
\* Initial state: the scheduler right after construction
\* ---------------------------------------------------------------------------
SchedInit ==
  /\ now = 0
  /\ objs = <<>>
  /\ tasks = <<>>
  /\ running = FALSE
  /\ timers = <<>>
  /\ execs = {}
  /\ hist = <<>>
  /\ emitted = <<>>
  /\ calls = 0
  /\ ret = NoRet

\* ---------------------------------------------------------------------------
\* Public operations
\* ---------------------------------------------------------------------------

\* One more public call, within the budget of the model.
Called == calls < MaxCalls /\ calls' = calls + 1

\* registerTask (lines 72-86).  The id is task_<Date.now()>_<random>.
NewTask(id, interval, enabled, maxRetries, retryDelay, timeout, fn) ==
  [id |-> id, interval |-> interval, enabled |-> enabled,
   lastRunTime |-> NoTime, nextRunTime |-> now + interval,
   retryAttempts |-> 0, maxRetries |-> maxRetries,
   retryDelay |-> retryDelay, timeout |-> timeout,
   runningPromise |-> FALSE, fn |-> fn]

registerTask(interval, enabled, maxRetries, retryDelay, timeout, fn, rnd) ==
  LET id == <<now, rnd>>
      newTask == NewTask(id, interval, enabled, maxRetries, retryDelay, timeout, fn)
  IN /\ Called
     /\ objs' = Append(objs, newTask)
     /\ hist' = Append(hist, HistInit)
     /\ tasks' = [i \in DOMAIN tasks \cup {id} |->
                    IF i = id THEN Len(objs) + 1 ELSE tasks[i]]
     /\ emitted' = <<>>
     /\ ret' = Returned("registerTask", id)
     /\ UNCHANGED <<now, running, timers, execs>>
  /\ UNCHANGED monVars

\* start (lines 91-97): the first poll cycle runs inside start().
start ==
  /\ Called
  /\ ret' = Returned("start", "undefined")
  /\ UNCHANGED <<now, tasks>>
  /\ IF running
     THEN /\ UNCHANGED <<objs, running, timers, execs, hist>>
          /\ emitted' = <<>>
          /\ UNCHANGED <<checks, started, bulks>>
     ELSE /\ running' = TRUE
          /\ PollBody(now, timers)
  /\ UNCHANGED <<storeVars, monitorTaskId, monitorInterval>>

\* A stop that drops the executions and the checks in flight.
stop_CancelsInFlight ==
  /\ Called
  /\ running' = FALSE
  /\ emitted' = <<>>
  /\ ret' = Returned("stop", "undefined")
  /\ execs' = {}
  /\ checks' = {}
  /\ UNCHANGED <<now, objs, tasks, timers, hist>>
  /\ UNCHANGED <<storeVars, started, bulks, monitorTaskId, monitorInterval>>

\* stop (lines 102-105).
stop ==
  /\ Called
  /\ running' = FALSE
  /\ emitted' = <<>>
  /\ ret' = Returned("stop", "undefined")
  /\ UNCHANGED <<now, objs, tasks, timers, execs, hist>>
  /\ UNCHANGED monVars

\* A merge that recomputes nextRunTime from the new interval whether or not the
\* task has run.
ApplyUpdates_AlwaysRecompute(task, updates) ==
  LET merged == [f \in DOMAIN task |->
                   IF f \in DOMAIN updates THEN updates[f] ELSE task[f]]
  IN IF "interval" \in DOMAIN updates
     THEN [merged EXCEPT !.nextRunTime = merged.lastRunTime + updates["interval"]]
     ELSE merged

\* The merge of Object.assign(task, updates) and the recomputation of
\* nextRunTime (lines 115-120).  updates is a function from some of the
\* field names to their new values.
ApplyUpdates(task, updates) ==
  LET merged == [f \in DOMAIN task |->
                   IF f \in DOMAIN updates THEN updates[f] ELSE task[f]]
  IN IF "interval" \in DOMAIN updates /\ updates["interval"] # 0
        /\ merged.lastRunTime # NoTime
     THEN [merged EXCEPT !.nextRunTime = merged.lastRunTime + updates["interval"]]
     ELSE merged

\* The updates a caller passes in this model.
UpdateInputs ==
  {[f \in {"interval"} |-> 2 * pollInterval],
   [f \in {"maxRetries"} |-> 1],
   [f \in {"enabled"} |-> FALSE]}

\* updateTask (lines 110-126).
updateTask(id, updates) ==
  /\ Called
  /\ emitted' = <<>>
  /\ ret' = Returned("updateTask", id \in DOMAIN tasks)
  /\ UNCHANGED <<now, tasks, running, timers, execs>>
  /\ IF id \notin DOMAIN tasks
     THEN UNCHANGED <<objs, hist>>
     ELSE /\ objs' = [objs EXCEPT ![tasks[id]] = ApplyUpdates(@, updates)]
          /\ hist' = [hist EXCEPT ![tasks[id]].clean =
                        @ /\ ~(hist[tasks[id]].fails > 0
                               /\ DOMAIN updates \cap {"maxRetries", "retryDelay"} # {})]
  /\ UNCHANGED monVars

\* removeTask (lines 131-138).
removeTask(id) ==
  /\ Called
  /\ ret' = Returned("removeTask", id \in DOMAIN tasks)
  /\ tasks' = [i \in DOMAIN tasks \ {id} |-> tasks[i]]
  /\ emitted' = <<>>
  /\ UNCHANGED <<now, objs, running, timers, execs, hist>>
  /\ UNCHANGED monVars

\* runTaskNow found no task (lines 159-161).
TaskNotFound ==
  /\ ret' = Returned("runTaskNow", "Task not found")
  /\ emitted' = <<>>
  /\ UNCHANGED <<objs, execs, hist>>
  /\ UNCHANGED <<checks, started, bulks>>

\* executeTask(task) called by runTaskNow (line 163), up to its await.  As in
\* a poll cycle, the callback checkAllActivePositions begins a bulk check and
\* settles within the turn when no position is ACTIVE.
ExecuteNow(o) ==
  LET monitor == objs[o].fn = CheckAllFn
      instant == monitor /\ ActiveIds = <<>>
      e == NewExec(o, now, FALSE)
  IN /\ objs' = [objs EXCEPT ![o] = IF instant THEN OnSuccess(BeginExecution(@, now))
                                    ELSE BeginExecution(@, now)]
     /\ execs' = IF instant THEN execs ELSE execs \cup {e}
     /\ hist' = IF instant
                THEN [hist EXCEPT ![o].ranNow = TRUE, ![o].fails = 0, ![o].clean = TRUE]
                ELSE [hist EXCEPT ![o].ranNow = TRUE]
     /\ emitted' = IF instant
                   THEN <<[type |-> "taskComplete", taskId |-> objs[o].id]>>
                   ELSE <<>>
     /\ ret' = IF instant THEN Returned("runTaskNow resolved", ResultOf(e))
               ELSE Returned("runTaskNow", "pending")
     /\ SetMonState(IF monitor THEN BeginBulkOn(MonState, <<o, e.n>>) ELSE MonState)

\* A runTaskNow that runs the task only once its nextRunTime has come.
runTaskNow_OnlyWhenDue(id) ==
  /\ Called
  /\ UNCHANGED <<now, tasks, running, timers>>
  /\ IF id \notin DOMAIN tasks THEN TaskNotFound
     ELSE IF now < objs[tasks[id]].nextRunTime
     THEN /\ ret' = Returned("runTaskNow", "pending")
          /\ emitted' = <<>>
          /\ UNCHANGED <<objs, execs, hist>>
          /\ UNCHANGED <<checks, started, bulks>>
     ELSE ExecuteNow(tasks[id])
  /\ UNCHANGED <<storeVars, monitorTaskId, monitorInterval>>

\* runTaskNow (lines 157-164), up to the await inside executeTask.
runTaskNow(id) ==
  /\ Called
  /\ UNCHANGED <<now, tasks, running, timers>>
  /\ IF id \notin DOMAIN tasks THEN TaskNotFound ELSE ExecuteNow(tasks[id])
  /\ UNCHANGED <<storeVars, monitorTaskId, monitorInterval>>

\* ---------------------------------------------------------------------------
\* Steps of the event loop
\* ---------------------------------------------------------------------------

\* A pending poll timer fires (poll, lines 196-235).
poll(i) ==
  /\ timers[i] <= now
  /\ ret' = NoRet
  /\ UNCHANGED calls
  /\ UNCHANGED <<now, tasks, running>>
  /\ IF ~running
     THEN /\ timers' = RemoveAt(timers, i)
          /\ UNCHANGED <<objs, execs, hist>>
          /\ emitted' = <<>>
          /\ UNCHANGED <<checks, started, bulks>>
     ELSE PollBody(now, RemoveAt(timers, i))
  /\ UNCHANGED <<storeVars, monitorTaskId, monitorInterval>>

\* The promise of an execution resolves (lines 256-272).  The callback of a
\* monitoring task settles with its bulk check instead.
taskResolves(e) ==
  /\ objs[e.obj].fn = AnyFn
  /\ ExecSettles(e, TRUE)
  /\ UNCHANGED monVars

\* Mutant of taskRejects: the rejection escapes the polling loop and takes
\* the scheduler down with it.
taskRejects_StopsLoop(e) ==
  /\ objs[e.obj].fn = AnyFn
  /\ objs' = [objs EXCEPT ![e.obj] = OnFailure(@, now)]
  /\ execs' = execs \ {e}
  /\ hist' = [hist EXCEPT ![e.obj].fails = @ + 1]
  /\ emitted' = FailureEvents(objs[e.obj])
  /\ ret' = IF e.byPoll THEN NoRet ELSE Returned("runTaskNow rejected", ErrorOf(e))
  /\ running' = FALSE
  /\ timers' = <<>>
  /\ UNCHANGED <<now, tasks, calls>>
  /\ UNCHANGED monVars

\* The promise of an execution rejects (lines 273-312).
taskRejects(e) ==
  /\ objs[e.obj].fn = AnyFn
  /\ ExecSettles(e, FALSE)
  /\ UNCHANGED monVars

\* The clock advances.
tick ==
  /\ now < MaxTime
  /\ now' = now + pollInterval
  /\ emitted' = <<>>
  /\ ret' = NoRet
  /\ UNCHANGED calls
  /\ UNCHANGED <<objs, tasks, running, timers, execs, hist>>
  /\ UNCHANGED monVars

SchedNext ==
  \/ \E ts \in TaskSpecs, rnd \in RandValues :
        registerTask(ts.interval, TRUE, ts.maxRetries, ts.retryDelay, ts.timeout,
                     AnyFn, rnd)
  \/ start
  \/ stop
  \/ \E id \in DOMAIN tasks \cup {UnknownId}, u \in UpdateInputs : updateTask(id, u)
  \/ \E id \in DOMAIN tasks \cup {UnknownId} : removeTask(id)
  \/ \E id \in DOMAIN tasks \cup {UnknownId} : runTaskNow(id)
  \/ \E i \in DOMAIN timers : poll(i)
  \/ \E e \in execs : taskResolves(e)
  \/ \E e \in execs : taskRejects(e)
  \/ tick

\* ---------------------------------------------------------------------------
\* The polling loop over unbounded time
\* ---------------------------------------------------------------------------

\* Bound: the number of poll periods of the past that the clock below keeps
\* apart.
LiveWindow == 4

\* The scheduler compares a stored time with the current time only (lines
\* 207 and 222) and computes new ones from the current time (lines 217, 244,
\* 245 and 290), so its behaviour is the same when every time is moved by
\* one amount.  The clock below stays at LiveNow and a poll period that
\* passes moves every stored time one period into the past, the times older
\* than the window staying at its edge.
LiveNow == LiveWindow * pollInterval

Shifted(t) ==
  IF t = NoTime THEN NoTime
  ELSE IF t <= pollInterval THEN 0 ELSE t - pollInterval

\* A poll period passes.  The promise of an abandoned execution that is
\* older than the window is taken never to settle.
clockAdvances ==
  /\ now = LiveNow
  /\ objs' = [o \in DOMAIN objs |->
                [objs[o] EXCEPT !.lastRunTime = Shifted(@),
                                !.nextRunTime = Shifted(@)]]
  /\ timers' = [i \in DOMAIN timers |-> Shifted(timers[i])]
  /\ execs' = {[e EXCEPT !.start = Shifted(@)] :
                 e \in {x \in execs : ~(x.abandoned /\ x.start = 0)}}
  /\ emitted' = <<>>
  /\ ret' = NoRet
  /\ UNCHANGED <<now, tasks, running, hist, calls>>
  /\ UNCHANGED monVars

\* The rest of executeTask after its await (lines 258-311), as ExecSettles
\* has it, without the count of failures that the history variable keeps.
callbackSettles(e, resolved) ==
  /\ objs' = [objs EXCEPT ![e.obj] = IF resolved THEN OnSuccess(@)
                                     ELSE OnFailure(@, now)]
  /\ execs' = execs \ {e}
  /\ emitted' = IF resolved
                THEN <<[type |-> "taskComplete", taskId |-> objs[e.obj].id]>>
                ELSE FailureEvents(objs[e.obj])
  /\ ret' = NoRet
  /\ UNCHANGED <<now, tasks, running, timers, calls, hist>>
  /\ UNCHANGED monVars

callbackResolves(e) == callbackSettles(e, TRUE)

callbackRejects(e) == callbackSettles(e, FALSE)

\* The scheduler right after registerTask and start() (lines 72-97): one
\* enabled task with a timeout, not yet due, and the timer of the next poll.
LiveInit ==
  /\ now = LiveNow
  /\ \E ts \in TaskSpecs :
       objs = <<NewTask(<<LiveNow, 0>>, ts.interval, TRUE, ts.maxRetries,
                        ts.retryDelay, ts.timeout, AnyFn)>>
  /\ tasks = [id \in {<<LiveNow, 0>>} |-> 1]
  /\ running = TRUE
  /\ timers = <<LiveNow + pollInterval>>
  /\ execs = {}
  /\ hist = <<HistInit>>
  /\ emitted = <<>>
  /\ calls = 2
  /\ ret = Returned("start", "undefined")

\* The scheduler left running with its task: the timers fire, the callbacks
\* settle or do not, and time passes.
LiveNext ==
  \/ \E i \in DOMAIN timers : poll(i)
  \/ \E e \in execs : callbackResolves(e)
  \/ \E e \in execs : callbackRejects(e)
  \/ clockAdvances

\* ===========================================================================
\* The monitor's use of the scheduler (src/utils/positionMonitor.ts, lines
\* 30-116)
\* ===========================================================================

\* A removal that removes nothing.
RegistryWithout_NothingRemoved(id) == tasks

\* The registry without the task of the given id (tasks.delete, line 132).
RegistryWithout(id) == [i \in DOMAIN tasks \ {id} |-> tasks[i]]

\* startMonitoring (lines 30-60): it keeps a truthy interval, removes the
\* monitoring task it knows of (stopMonitoring, lines 65-72), registers a new
\* one (registerTask, lines 72-86) and starts the scheduler (start, lines
\* 91-97), whose first poll cycle runs inside the call.
startMonitoring(interval, rnd) ==
  LET given == Truthy(interval) /\ interval # 0
      newInterval == IF given THEN interval ELSE monitorInterval
      kept == IF monitorTaskId # UndefinedId THEN RegistryWithout(monitorTaskId)
              ELSE tasks
      id == <<now, rnd>>
      os == Append(objs, NewTask(id, newInterval, TRUE, MonitorMaxRetries,
                                 MonitorRetryDelay, MonitorTimeout, CheckAllFn))
      hs == Append(hist, HistInit)
      registry == [i \in DOMAIN kept \cup {id} |->
                     IF i = id THEN Len(os) ELSE kept[i]]
  IN /\ Called
     /\ monitorInterval' = newInterval
     /\ monitorTaskId' = id
     /\ tasks' = registry
     /\ ret' = Returned("startMonitoring", "undefined")
     /\ IF running
        THEN /\ objs' = os
             /\ hist' = hs
             /\ emitted' = <<>>
             /\ UNCHANGED <<running, timers, execs>>
             /\ UNCHANGED <<checks, started, bulks>>
        ELSE /\ running' = TRUE
             /\ PollBodyOn(os, hs, {registry[i] : i \in DOMAIN registry}, now, timers)
     /\ UNCHANGED now
     /\ UNCHANGED storeVars

\* stopMonitoring (lines 65-72).
stopMonitoring ==
  /\ Called
  /\ tasks' = IF monitorTaskId # UndefinedId THEN RegistryWithout(monitorTaskId)
              ELSE tasks
  /\ monitorTaskId' = UndefinedId
  /\ emitted' = <<>>
  /\ ret' = Returned("stopMonitoring", "undefined")
  /\ UNCHANGED <<now, objs, running, timers, execs, hist>>
  /\ UNCHANGED <<storeVars, checks, started, bulks, monitorInterval>>

\* updateMonitorInterval that replaces the task by a newly built one with the
\* new interval.
updateMonitorInterval_Restarts(interval) ==
  /\ Called
  /\ monitorInterval' = interval
  /\ objs' = IF monitorTaskId # UndefinedId /\ monitorTaskId \in DOMAIN tasks
             THEN [objs EXCEPT ![tasks[monitorTaskId]] =
                     NewTask(@.id, interval, @.enabled, @.maxRetries,
                             @.retryDelay, @.timeout, @.fn)]
             ELSE objs
  /\ emitted' = <<>>
  /\ ret' = Returned("updateMonitorInterval", "undefined")
  /\ UNCHANGED <<now, tasks, running, timers, execs, hist>>
  /\ UNCHANGED <<storeVars, checks, started, bulks, monitorTaskId>>

\* updateMonitorInterval (lines 77-88), with updateTask (lines 110-126).
updateMonitorInterval(interval) ==
  /\ Called
  /\ monitorInterval' = interval
  /\ objs' = IF monitorTaskId # UndefinedId /\ monitorTaskId \in DOMAIN tasks
             THEN [objs EXCEPT ![tasks[monitorTaskId]] =
                     ApplyUpdates(@, [f \in {"interval"} |-> interval])]
             ELSE objs
  /\ emitted' = <<>>
  /\ ret' = Returned("updateMonitorInterval", "undefined")
  /\ UNCHANGED <<now, tasks, running, timers, execs, hist>>
  /\ UNCHANGED <<storeVars, checks, started, bulks, monitorTaskId>>

\* checkAllActivePositions called directly (the /check_now command,
\* src/handlers/commandHandlers.ts line 110), up to its await of Promise.all.
checkAllActivePositions ==
  /\ Called
  /\ SetMonState(BeginBulkOn(MonState, NoExec))
  /\ emitted' = <<>>
  /\ ret' = Returned("checkAllActivePositions", "pending")
  /\ UNCHANGED <<now, objs, tasks, running, timers, execs, hist>>
  /\ UNCHANGED <<storeVars, monitorTaskId, monitorInterval>>

\* The id of no stored position.
UnknownPositionId == "p0"

\* checkNewPosition that lets the error of a missing position escape.
checkNewPosition_ThrowsWhenMissing(id) ==
  /\ Called
  /\ emitted' = <<>>
  /\ IF id \notin DOMAIN positions
     THEN /\ ret' = Returned("checkNewPosition", "thrown")
          /\ UNCHANGED <<checks, started>>
     ELSE /\ started < MaxChecks
          /\ started' = started + 1
          /\ checks' = {[c EXCEPT !.solo = @ /\ c.pid # id] : c \in checks}
                       \cup {[pid |-> id, n |-> FreshCheckN, pc |-> "fetch",
                              position |-> positions[id], before |-> snap[id],
                              solo |-> ChecksOf(id) = {},
                              status |-> NotYetFetched, bulk |-> 0,
                              via |-> "checkNewPosition"]}
          /\ ret' = Returned("checkNewPosition", "pending")
  /\ UNCHANGED <<now, objs, tasks, running, timers, execs, hist>>
  /\ UNCHANGED <<storeVars, bulks, monitorTaskId, monitorInterval>>

\* checkNewPosition(positionId), as the project's notes list it: look the
\* position up; when there is none, log and return; otherwise await
\* checkPositionStatus(position) inside a try block whose catch only logs.
\* getPosition resolves within the turn, so a call with an unknown id has
\* returned when the step ends and a call with a known id is waiting for its
\* check.
checkNewPosition(id) ==
  /\ Called
  /\ emitted' = <<>>
  /\ IF id \notin DOMAIN positions
     THEN /\ ret' = Returned("checkNewPosition", "returned")
          /\ UNCHANGED <<checks, started>>
     ELSE /\ started < MaxChecks
          /\ started' = started + 1
          /\ checks' = {[c EXCEPT !.solo = @ /\ c.pid # id] : c \in checks}
                       \cup {[pid |-> id, n |-> FreshCheckN, pc |-> "fetch",
                              position |-> positions[id], before |-> snap[id],
                              solo |-> ChecksOf(id) = {},
                              status |-> NotYetFetched, bulk |-> 0,
                              via |-> "checkNewPosition"]}
          /\ ret' = Returned("checkNewPosition", "pending")
  /\ UNCHANGED <<now, objs, tasks, running, timers, execs, hist>>
  /\ UNCHANGED <<storeVars, bulks, monitorTaskId, monitorInterval>>

\* The statuses of the two stored positions at start-up.
StatusMixes ==
  {<<"active", "active">>, <<"active", "closed">>,
   <<"pending", "active">>, <<"error", "closed">>}

\* The monitor at start-up (src/bot.ts, lines 22-29): a bot is set, a chat is
\* mapped to the wallet, and the store has loaded two positions that were
\* never checked, with one of the given pairs of statuses.
StoreInit(mixes) ==
  /\ telegramBot = TRUE
  /\ walletMap = <<TestChatId>>
  /\ snap = [id \in StoredIds |-> NoStatus]
  /\ \E mix \in mixes :
       file = [id \in StoredIds |->
                 serializePosition(
                   [InitialPosition(id, TestChatId) EXCEPT
                      !.status = IF id = PositionIds[1] THEN mix[1] ELSE mix[2]])]
  /\ histories = [id \in StoredIds |-> <<>>]
  /\ positions = LoadedPositions(file)
  /\ positionStorage = LoadedPositions(file)
  /\ storage = "file"
  /\ dbCalls = {}
  /\ checks = {}
  /\ outcome = [id \in StoredIds |-> NoOutcome]
  /\ started = 0
  /\ bulks = <<>>
  /\ monitorTaskId = UndefinedId
  /\ monitorInterval = DefaultMonitorInterval

\* The bulk check called directly, over every pair of statuses.
BulkNext ==
  \/ checkAllActivePositions
  \/ \E c \in checks : fetchFails(c)
  \/ \E c \in checks, b \in ActiveBins :
       fetchReturns(c, b, CHOOSE enr \in Enrichments : enr.kind = "failed")
  \/ \E c \in checks : sendSettles(c)

\* The check of a position right after its creation, with an id the store
\* holds or does not hold.
NewPositionNext ==
  \/ \E id \in StoredIds \cup {UnknownPositionId} : checkNewPosition(id)
  \/ \E c \in checks : fetchFails(c)
  \/ \E c \in checks, b \in ActiveBins :
       fetchReturns(c, b, CHOOSE enr \in Enrichments : enr.kind = "failed")
  \/ \E c \in checks : sendSettles(c)

\* The active bins around the boundaries of the test position's range: the
\* bin below it, its lowest, a middle one, its highest, the bin above it.
RangeBins ==
  {TestLowerBinId - 1, TestLowerBinId, 150, TestUpperBinId, TestUpperBinId + 1}

\* The store with the test position and a position whose range is the single
\* bin 150, neither checked yet.
RangeInit ==
  /\ telegramBot = TRUE
  /\ walletMap = <<TestChatId>>
  /\ snap = [id \in StoredIds |-> NoStatus]
  /\ file = [id \in StoredIds |->
               serializePosition(
                 IF id = PositionIds[1] THEN InitialPosition(id, TestChatId)
                 ELSE [InitialPosition(id, TestChatId) EXCEPT
                         !.lowerBinId = 150, !.upperBinId = 150])]
  /\ histories = [id \in StoredIds |-> <<>>]
  /\ positions = LoadedPositions(file)
  /\ positionStorage = LoadedPositions(file)
  /\ storage = "file"
  /\ dbCalls = {}
  /\ checks = {}
  /\ outcome = [id \in StoredIds |-> NoOutcome]
  /\ started = 0
  /\ bulks = <<>>
  /\ monitorTaskId = UndefinedId
  /\ monitorInterval = DefaultMonitorInterval

\* Checks of the two positions against each of the bins.
RangeNext ==
  \/ \E id \in StoredIds : startCheck(id)
  \/ \E c \in checks, b \in RangeBins :
       fetchReturns(c, b, CHOOSE enr \in Enrichments : enr.kind = "failed")
  \/ \E c \in checks : sendSettles(c)

\* The intervals the commands pass (commandHandlers.ts lines 73-98): none, or
\* a positive number of seconds.
StartIntervals == {Undef, pollInterval}

\* The bot with one position at most to check: the monitor's commands, the
\* scheduler's start and stop, the event loop, and the checks of the bulk
\* checks that the monitoring task begins.
AppMixes == {<<"active", "closed">>, <<"error", "closed">>}

AppNext ==
  \/ \E interval \in StartIntervals, rnd \in RandValues : startMonitoring(interval, rnd)
  \/ stopMonitoring
  \/ updateMonitorInterval(2 * pollInterval)
  \/ start
  \/ stop
  \/ \E i \in DOMAIN timers : poll(i)
  \/ tick
  \/ \E c \in checks : fetchFails(c)
  \/ \E c \in checks, b \in ActiveBins :
       BinInRange(c.position, b)
       /\ fetchReturns(c, b, CHOOSE enr \in Enrichments : enr.kind = "failed")
  \/ \E c \in checks : sendSettles(c)

\* ===========================================================================
\* The position storages (src/src/models/PositionStore.ts, FilePositionStorage;
\* src/src/models/index.ts, PrismaPositionStorage)
\* ===========================================================================

\* f with key k set to v (Map.prototype.set; a row created or replaced).
Put(f, k, v) == [x \in DOMAIN f \cup {k} |-> IF x = k THEN v ELSE f[x]]

\* f without key k (Map.prototype.delete; a row deleted).
Without(f, k) == [x \in DOMAIN f \ {k} |-> f[x]]

\* this.histories.get(id) || [] (PositionStore.ts lines 337, 363, 374, 385); the
\* rows of the history table with this positionId, in the order of insertion.
HistoryOf(id) == IF id \in DOMAIN histories THEN histories[id] ELSE <<>>

\* The history records the storages write themselves: PositionStore.ts lines
\* 251-270 and lines 355-360.
CreatedRecord(id) ==
  [positionId |-> id, timestamp |-> now, eventType |-> "created",
   priceAtEvent |-> Undef]

DeletedRecord(id) ==
  [positionId |-> id, timestamp |-> now, eventType |-> "deleted",
   priceAtEvent |-> Undef]

\* The chat id walletService.ts (line 99) writes to a position.
OtherChatId == 67890

\* The partial positions passed to updatePosition.
StoreUpdates ==
  {[f \in {"status"} |-> "closed"], [f \in {"chatId"} |-> OtherChatId]}

\* The position passed to savePosition.
SavedPositions ==
  {[InitialPosition(PositionIds[1], TestChatId) EXCEPT !.status = "pending"]}

\* The times of the records passed to savePositionHistory: the time of the
\* call, or a time before the process started.
HistoryTimes == {now, BeforeStart}

HistoryEntry(id, t) ==
  [positionId |-> id, timestamp |-> t, eventType |-> "withdrawn",
   priceAtEvent |-> Undef]

\* An update that writes the given fields and leaves updatedAt as it was.
MergeUpdates_KeepsUpdatedAt(position, updates) ==
  [f \in DOMAIN position |->
     IF f \in DOMAIN updates THEN updates[f] ELSE position[f]]

\* { ...position, ...updates, updatedAt: new Date() } (PositionStore.ts lines
\* 320-324, index.ts lines 415-419).
MergeUpdates(position, updates) ==
  [f \in DOMAIN position |->
     IF f = "updatedAt" THEN now
     ELSE IF f \in DOMAIN updates THEN updates[f] ELSE position[f]]

\* lastStatus as convertPositionToDb and savePosition hand it to the database
\* (index.ts lines 31-50, 268-292) and as convertDbToPosition reads it back
\* (lines 127-156): a fees or rewards object that is absent or null comes back
\* absent.
DbLastStatus(ls) ==
  IF ~ls.defined THEN NoStatus
  ELSE [ls EXCEPT !.fees = IF ls.fees.pending \in {Undef, Null}
                           THEN UndefFees ELSE @,
                  !.rewards = IF @ \in {Undef, Null} THEN Undef ELSE @]

\* The row savePosition writes (index.ts lines 296-337): an absent chatId is
\* stored as NULL.
convertPositionToDb(position) ==
  [position EXCEPT !.chatId = IF @ = Undef THEN Null ELSE @,
                   !.lastStatus = DbLastStatus(@)]

\* convertDbToPosition (index.ts lines 95-159).
convertDbToPosition(row) == row

\* getPositionHistory: the file storage returns its array as it is
\* (PositionStore.ts lines 384-386); the Prisma storage orders the rows by
\* timestamp (index.ts lines 475-482), rows of one timestamp in the order of
\* insertion.
RECURSIVE OrderedByTimestamp(_)
OrderedByTimestamp(h) ==
  IF h = <<>> THEN <<>>
  ELSE LET least == CHOOSE i \in DOMAIN h :
                      \A j \in DOMAIN h :
                        \/ h[i].timestamp < h[j].timestamp
                        \/ h[i].timestamp = h[j].timestamp /\ i <= j
       IN <<h[least]>>
          \o OrderedByTimestamp(SubSeq(h, 1, least - 1)
                                \o SubSeq(h, least + 1, Len(h)))

getPositionHistory(id) ==
  IF storage = "file" THEN HistoryOf(id) ELSE OrderedByTimestamp(HistoryOf(id))

\* The error of updatePosition and deletePosition for an id the storage does
\* not hold (PositionStore.ts lines 315-317, 350-352; index.ts lines 410-412;
\* prisma.position.delete of no row).
NotFound == "thrown: Position not found"

\* What no storage operation touches.
StoreFrame ==
  /\ emitted' = <<>>
  /\ UNCHANGED <<now, objs, tasks, running, timers, execs, hist>>
  /\ UNCHANGED <<positionStorage, storage, telegramBot, walletMap, outcome, snap>>
  /\ UNCHANGED <<checks, started, bulks, monitorTaskId, monitorInterval>>

\* A storage call suspended between two queries of the database, with the
\* position it is about to write.
DbCall(op, id, position) ==
  [op |-> op, n |-> calls, id |-> id, position |-> position]

\* savePosition.  File (PositionStore.ts lines 249-276): the position is put
\* in the map, a 'created' record starts the history of a position that has
\* none, and the files are written.  Prisma (index.ts lines 233-337): the row
\* is upserted.
savePosition(position) ==
  /\ Called
  /\ IF storage = "file"
     THEN /\ positions' = Put(positions, position.id, position)
          /\ histories' = IF HistoryOf(position.id) = <<>>
                          THEN Put(histories, position.id,
                                   <<CreatedRecord(position.id)>>)
                          ELSE histories
          /\ file' = SavedFile(positions')
     ELSE /\ positions' = Put(positions, position.id, convertPositionToDb(position))
          /\ UNCHANGED <<histories, file>>
  /\ ret' = Returned("savePosition", "resolved")
  /\ UNCHANGED dbCalls
  /\ StoreFrame

\* updatePosition.  File (PositionStore.ts lines 313-343): in one turn the
\* position is looked up, the merged position replaces it, an 'updated' record
\* is appended and the files are written.  Prisma (index.ts lines 408-423): the
\* position is read, and the merged position is saved by a later query.
updatePosition(id, updates) ==
  /\ Called
  /\ IF id \notin DOMAIN positions
     THEN /\ ret' = Returned("updatePosition", NotFound)
          /\ UNCHANGED <<positions, histories, file, dbCalls>>
     ELSE IF storage = "file"
     THEN /\ positions' = [positions EXCEPT ![id] = MergeUpdates(@, updates)]
          /\ histories' = Put(histories, id, Append(HistoryOf(id), UpdatedRecord(id)))
          /\ file' = SavedFile(positions')
          /\ ret' = Returned("updatePosition", "resolved")
          /\ UNCHANGED dbCalls
     ELSE /\ dbCalls' = dbCalls \cup
                          {DbCall("updatePosition", id,
                                  MergeUpdates(convertDbToPosition(positions[id]),
                                               updates))}
          /\ ret' = Returned("updatePosition", "pending")
          /\ UNCHANGED <<positions, histories, file>>
  /\ StoreFrame

\* deletePosition.  File (PositionStore.ts lines 348-368): an unknown id
\* throws; otherwise the position leaves the map and a 'deleted' record is
\* appended to its history.  Prisma (index.ts lines 428-451): the history rows
\* of the position are deleted first, and the position row by a later query.
deletePosition(id) ==
  /\ Called
  /\ IF storage = "file"
     THEN IF id \notin DOMAIN positions
          THEN /\ ret' = Returned("deletePosition", NotFound)
               /\ UNCHANGED <<positions, histories, file, dbCalls>>
          ELSE /\ positions' = Without(positions, id)
               /\ histories' = Put(histories, id,
                                   Append(HistoryOf(id), DeletedRecord(id)))
               /\ file' = SavedFile(positions')
               /\ ret' = Returned("deletePosition", "resolved")
               /\ UNCHANGED dbCalls
     ELSE /\ histories' = Put(histories, id, <<>>)
          /\ dbCalls' = dbCalls \cup
                          {DbCall("deletePosition", id,
                                  InitialPosition(id, TestChatId))}
          /\ ret' = Returned("deletePosition", "pending")
          /\ UNCHANGED <<positions, file>>
  /\ StoreFrame

\* savePositionHistory.  File (PositionStore.ts lines 373-379): the record is
\* pushed onto the array of its position.  Prisma (index.ts lines 456-470): a
\* row is created, which the relation to Position (schema.prisma) refuses
\* when the position row does not exist.
savePositionHistory(history) ==
  /\ Called
  /\ IF storage = "prisma" /\ history.positionId \notin DOMAIN positions
     THEN /\ ret' = Returned("savePositionHistory", "thrown: foreign key")
          /\ UNCHANGED histories
     ELSE /\ histories' = Put(histories, history.positionId,
                              Append(HistoryOf(history.positionId), history))
          /\ ret' = Returned("savePositionHistory", "resolved")
  /\ UNCHANGED <<positions, file, dbCalls>>
  /\ StoreFrame

\* The next query of a suspended Prisma call returns: updatePosition upserts
\* the merged position (savePosition, index.ts line 422), deletePosition
\* deletes the position row (lines 440-442).
dbCallResumes(call) ==
  /\ call \in dbCalls
  /\ dbCalls' = dbCalls \ {call}
  /\ IF call.op = "updatePosition"
     THEN /\ positions' = Put(positions, call.id, convertPositionToDb(call.position))
          /\ ret' = Returned("updatePosition", "resolved")
     ELSE IF call.id \in DOMAIN positions
     THEN /\ positions' = Without(positions, call.id)
          /\ ret' = Returned("deletePosition", "resolved")
     ELSE /\ ret' = Returned("deletePosition", NotFound)
          /\ UNCHANGED positions
  /\ UNCHANGED <<histories, file, calls>>
  /\ StoreFrame

\* The storage StorageFactory returns (StorageFactory.ts lines 28-39), holding
\* the two test positions, neither checked yet.
StorageInit ==
  /\ storage \in {"file", "prisma"}
  /\ dbCalls = {}
  /\ telegramBot = TRUE
  /\ walletMap = <<TestChatId>>
  /\ snap = [id \in StoredIds |-> NoStatus]
  /\ file = [id \in StoredIds |-> serializePosition(InitialPosition(id, TestChatId))]
  /\ histories = [id \in StoredIds |-> <<>>]
  /\ positions = [id \in StoredIds |-> InitialPosition(id, TestChatId)]
  /\ positionStorage = LoadedPositions(file)
  /\ checks = {}
  /\ outcome = [id \in StoredIds |-> NoOutcome]
  /\ started = 0
  /\ bulks = <<>>
  /\ monitorTaskId = UndefinedId
  /\ monitorInterval = DefaultMonitorInterval

\* The ids the storage operations are called with.
StoreIds == {PositionIds[1], UnknownPositionId}

\* The callers of a storage.
StorageNext ==
  \/ \E p \in SavedPositions : savePosition(p)
  \/ \E id \in StoreIds, u \in StoreUpdates : updatePosition(id, u)
  \/ \E id \in StoreIds : deletePosition(id)
  \/ \E t \in HistoryTimes : savePositionHistory(HistoryEntry(PositionIds[1], t))
  \/ \E call \in dbCalls : dbCallResumes(call)

\* The partial position savePositionStatus passes to updatePosition
\* (positionMonitor.ts lines 299-317): the lastStatus of a fetched status.
ReconcileUpdates ==
  {[f \in {"lastStatus"} |->
      NewLastStatus(FetchedStatus(InitialPosition(PositionIds[1], TestChatId),
                                  b, enr))] :
   b \in ActiveBins, enr \in Enrichments}

\* A reconciliation writing lastStatus and the owning workflow writing the
\* status CLOSED to one position of a storage.
ReconcileNext ==
  \/ \E u \in ReconcileUpdates : updatePosition(PositionIds[1], u)
  \/ \E u \in StoreUpdates :
       "status" \in DOMAIN u /\ updatePosition(PositionIds[1], u)
  \/ \E call \in dbCalls : dbCallResumes(call)

\* The id that uuidv4() gives the position created below (PositionStore.ts
\* line 191).
CreatedPositionId == "p3"

\* createPosition called on the handlers' FilePositionStorage
\* (messageHandlers.ts line 366; PositionStore.ts lines 188-244): the new
\* ACTIVE position is set in that instance's Map, and saveData, which runs
\* up to its end without waiting, writes that Map to positions.json.
createPosition ==
  /\ Called
  /\ CreatedPositionId \notin DOMAIN positionStorage
  /\ positionStorage' = Put(positionStorage, CreatedPositionId,
                            InitialPosition(CreatedPositionId, TestChatId))
  /\ file' = SavedFile(positionStorage')
  /\ emitted' = <<>>
  /\ ret' = Returned("createPosition", CreatedPositionId)
  /\ UNCHANGED <<now, objs, tasks, running, timers, execs, hist>>
  /\ UNCHANGED <<storage, dbCalls, telegramBot, walletMap, positions, histories,
                 outcome, snap>>
  /\ UNCHANGED <<checks, started, bulks, monitorTaskId, monitorInterval>>

\* The handlers creating a position while the monitor's bulk checks run on
\* the monitor's own FilePositionStorage (positionMonitor.ts line 22).
InstancesNext ==
  \/ createPosition
  \/ checkAllActivePositions
  \/ \E c \in checks : fetchFails(c)
  \/ \E c \in checks, b \in ActiveBins :
       fetchReturns(c, b, CHOOSE enr \in Enrichments : enr.kind = "failed")
  \/ \E c \in checks : sendSettles(c)

\* ---------------------------------------------------------------------------
\* Specifications
\* ---------------------------------------------------------------------------

\* The scheduler alone: no position is stored and no check runs.
MonIdle ==
  /\ telegramBot = FALSE
  /\ walletMap = <<>>
  /\ positions = <<>>
  /\ positionStorage = <<>>
  /\ histories = <<>>
  /\ file = <<>>
  /\ storage = "file"
  /\ dbCalls = {}
  /\ checks = {}
  /\ outcome = <<>>
  /\ snap = <<>>
  /\ started = 0
  /\ bulks = <<>>
  /\ monitorTaskId = UndefinedId
  /\ monitorInterval = DefaultMonitorInterval

SchedSpecInit == SchedInit /\ MonIdle

SchedSpec == SchedSpecInit /\ [][SchedNext]_vars

\* The reconciliation engine alone, its checks called directly.
MonSpecInit == SchedInit /\ MonInit

MonSpec == MonSpecInit /\ [][MonNext]_vars

\* The bot: the monitor driving the scheduler, and the /check_now command.
AppSpecInit == SchedInit /\ StoreInit(AppMixes)

AppSpec == AppSpecInit /\ [][AppNext]_vars

\* The bulk check alone, called directly (the /check_now command).
BulkSpecInit == SchedInit /\ StoreInit(StatusMixes)

BulkSpec == BulkSpecInit /\ [][BulkNext]_vars

\* The immediate check of a position alone (the creation flows).
NewPositionSpecInit == SchedInit /\ StoreInit(StatusMixes)

NewPositionSpec == NewPositionSpecInit /\ [][NewPositionNext]_vars

\* The range test of the checks, on the boundaries of the ranges.
RangeSpecInit == SchedInit /\ RangeInit

RangeSpec == RangeSpecInit /\ [][RangeNext]_vars

\* A position storage alone, of either implementation.
StorageSpecInit == SchedInit /\ StorageInit

StorageSpec == StorageSpecInit /\ [][StorageNext]_vars

\* The checks followed await by await, on a disk that can fail.
CheckStepsSpecInit == SchedInit /\ StoreInit({<<"active", "active">>})

CheckStepsSpec == CheckStepsSpecInit /\ [][CheckStepsNext]_vars

\* The scheduler left running over unbounded time: a timer that is due
\* fires (setTimeout, line 234) and time passes; a callback need not settle.
LiveSpecInit == LiveInit /\ MonIdle

LiveSpec ==
  /\ LiveSpecInit
  /\ [][LiveNext]_vars
  /\ WF_vars(clockAdvances)
  /\ WF_vars(\E i \in DOMAIN timers : poll(i))

\* The two FilePositionStorage instances of the bot on their shared files.
InstancesSpecInit == SchedInit /\ StoreInit(StatusMixes)

InstancesSpec == InstancesSpecInit /\ [][InstancesNext]_vars

\* The database-backed storage under a reconciliation and a closing workflow.
ReconcileSpecInit == SchedInit /\ StorageInit /\ storage = "prisma"

ReconcileSpec == ReconcileSpecInit /\ [][ReconcileNext]_vars

\* ---------------------------------------------------------------------------
\* Properties of the scheduler
\* ---------------------------------------------------------------------------

InFlight(o) == Cardinality(ExecsOf(o))

\* A step in which one execution e settles by rejecting / by resolving.
Rejected(e) ==
  /\ e \in execs
  /\ execs' = execs \ {e}
  /\ hist'[e.obj].fails = hist[e.obj].fails + 1

Settled(e) == e \in execs /\ execs' = execs \ {e}

\* A step that runs one poll cycle with this.running true (a timer firing,
\* or the cycle inside start()).
PollCycle == running' /\ timers' # timers

\* C1: under any interleaving of the public operations, poll cycles, timeout
\* abandonment and callback completions, no registered task id has two
\* executions of its callback in flight at the same time.
C1_AtMostOneExecutionPerTask ==
  \A id \in DOMAIN tasks : InFlight(tasks[id]) <= 1

\* C2: when only the polling loop starts executions of a task (no runTaskNow)
\* and none of its callbacks outlives its timeout (no abandonment), the task
\* never has two executions in flight, also when nextRunTime has passed while
\* the callback is still running.
C2_PollStartsNoSecondExecution ==
  \A o \in DOMAIN objs :
    (~hist[o].ranNow /\ ~hist[o].timedOut) => InFlight(o) <= 1

\* C2 witness: a poll cycle has run at the current clock value while a
\* poll-started callback of an enabled task was running past its nextRunTime
\* and within its timeout.
C2_Witness ==
  \E o \in Registered :
    /\ ~hist[o].ranNow /\ ~hist[o].timedOut
    /\ objs[o].enabled /\ objs[o].runningPromise
    /\ running
    /\ \E i \in DOMAIN timers : timers[i] = now + pollInterval
    /\ \E e \in ExecsOf(o) : e.byPoll /\ e.start < now
    /\ now >= objs[o].nextRunTime
    /\ objs[o].timeout # 0 /\ now - objs[o].lastRunTime <= objs[o].timeout

\* C3: in a run of consecutive failures of a task with retryDelay d (no
\* success in between), the N-th failure, 1 <= N <= maxRetries, sets
\* retryAttempts to N and nextRunTime to the time of that failure plus
\* d * 2^(N-1).
C3_ExponentialBackoff ==
  [][\A e \in execs :
       LET o == e.obj
           N == hist[o].fails + 1
       IN (Rejected(e) /\ N <= objs[o].maxRetries)
          => /\ objs'[o].retryAttempts = N
             /\ objs'[o].nextRunTime = now + objs[o].retryDelay * Pow2(N - 1)
    ]_schedVars

\* C3 witness: the second consecutive failure has just been handled, with
\* twice the base delay.
C3_Witness ==
  \E o \in DOMAIN objs :
    /\ hist[o].fails = 2 /\ hist[o].clean
    /\ objs[o].retryAttempts = 2
    /\ objs[o].nextRunTime = now + 2 * objs[o].retryDelay

\* C4: when the callback of an execution fails while retryAttempts equals
\* maxRetries, retryAttempts is reset to 0, exactly one taskFailed event is
\* emitted, the registry and the enabled flag are left alone, and nextRunTime
\* is the start time of that execution plus interval; in a run of consecutive
\* failures with unchanged retry settings this is failure number
\* maxRetries + 1 of the cycle.
C4_ExhaustedRetriesResumeCadence ==
  [][\A e \in execs :
       LET o == e.obj
       IN (Rejected(e) /\ objs[o].retryAttempts = objs[o].maxRetries)
          => /\ objs'[o].retryAttempts = 0
             /\ emitted' = <<[type |-> "taskFailed", taskId |-> objs[o].id]>>
             /\ tasks' = tasks
             /\ objs'[o].enabled = objs[o].enabled
             /\ objs'[o].nextRunTime = e.start + objs[o].interval
             /\ hist[o].clean
                  => hist'[o].fails % (objs[o].maxRetries + 1) = 0
    ]_schedVars

\* C4 witness: a poll-started execution of a registered, enabled task has
\* just failed with its retries exhausted.
C4_Witness ==
  \E o \in Registered :
    /\ emitted = <<[type |-> "taskFailed", taskId |-> objs[o].id]>>
    /\ ~hist[o].ranNow /\ ~hist[o].timedOut /\ hist[o].clean
    /\ hist[o].fails = objs[o].maxRetries + 1
    /\ objs[o].enabled
    /\ objs[o].retryAttempts = 0
    /\ objs[o].nextRunTime = objs[o].lastRunTime + objs[o].interval

\* C5: a poll cycle that finds an enabled task with its running marker set,
\* a timeout set and more than the timeout elapsed since lastRunTime clears
\* the marker and sets nextRunTime to the time of that poll plus interval;
\* and a poll cycle that finds an enabled task with no marker and its
\* nextRunTime reached starts it, so the abandoned task runs again.
C5_TimeoutAbandonsAndReschedules ==
  [][\A o \in Registered :
       /\ (PollCycle /\ objs[o].enabled /\ objs[o].runningPromise
           /\ objs[o].timeout # 0 /\ objs[o].lastRunTime # NoTime
           /\ now - objs[o].lastRunTime > objs[o].timeout)
          => /\ ~objs'[o].runningPromise
             /\ objs'[o].nextRunTime = now + objs[o].interval
             /\ hist'[o].timedOut
       /\ (PollCycle /\ objs[o].enabled /\ ~objs[o].runningPromise
           /\ objs[o].nextRunTime # NoTime /\ now >= objs[o].nextRunTime)
          => /\ objs'[o].runningPromise
             /\ objs'[o].lastRunTime = now
             /\ \E e \in execs' \ execs : e.obj = o /\ e.byPoll
    ]_schedVars

\* C5 witness: the callback of an abandoned execution is still unresolved
\* and a later poll cycle has started the task again.
C5_Witness ==
  \E o \in Registered :
    /\ hist[o].timedOut
    /\ \E f \in ExecsOf(o), e \in ExecsOf(o) :
         /\ f.abandoned /\ ~e.abandoned
         /\ e.byPoll /\ e.start > f.start + objs[o].timeout

\* C6: the resolution or rejection of a callback that the polling loop has
\* abandoned changes nothing in its task: the running marker, retryAttempts,
\* nextRunTime and lastRunTime stay as they were.
C6_AbandonedCompletionIgnored ==
  [][\A e \in execs :
       (Settled(e) /\ e.abandoned) => objs'[e.obj] = objs[e.obj]
    ]_schedVars

\* C7: the failure of the callback of a poll-started execution leaves the
\* polling loop as it was (the scheduler still running, the pending poll
\* still scheduled), leaves the registry as it was and changes no field of
\* any other task.
C7_FailureIsIsolated ==
  [][\A e \in execs :
       (Rejected(e) /\ e.byPoll)
          => /\ running' = running
             /\ timers' = timers
             /\ tasks' = tasks
             /\ \A p \in DOMAIN objs \ {e.obj} : objs'[p] = objs[p]
    ]_schedVars

\* C7 witness: two tasks are registered, the scheduler is running with a
\* poll pending, a poll-started callback of one task has just failed and a
\* callback of the other task is in flight.
C7_Witness ==
  \E o \in Registered, p \in Registered :
    /\ o # p
    /\ running /\ timers # <<>>
    /\ ~hist[o].ranNow /\ hist[o].fails > 0
    /\ ExecsOf(o) = {}
    /\ objs[p].runningPromise /\ ExecsOf(p) # {}

\* ---------------------------------------------------------------------------
\* Notification contracts of checkPositionStatus
\* ---------------------------------------------------------------------------
DestinationResolvable == telegramBot /\ Truthy(getChatIdForWallet(Wallet))

RangeSections == {"now in range", "now out of range"}

\* C8: for a position whose lastStatus is absent, with a bot set and a
\* resolvable chat, every successful checkPositionStatus call makes exactly one
\* sendMessage call, and the message carries the 'now being monitored'
\* section, whether the position is found in range or out of range.
C8_FirstCheckAlwaysNotifies ==
  \A id \in StoredIds :
    (outcome[id].ok /\ outcome[id].first /\ DestinationResolvable)
      => (outcome[id].sendCalls = 1
          /\ "now being monitored" \in outcome[id].sections)

\* Both positions had their first check, one found in range and the other out
\* of range, and each check sent its one message.
C8_Witness ==
  /\ DestinationResolvable
  /\ \A id \in StoredIds :
       outcome[id].ok /\ outcome[id].first /\ outcome[id].sendCalls = 1
  /\ outcome[PositionIds[1]].binInRange
  /\ ~outcome[PositionIds[2]].binInRange

C10_NoSpuriousNotification ==
  \A id \in StoredIds :
    (/\ outcome[id].ok /\ outcome[id].solo
     /\ ~outcome[id].first
     /\ ~outcome[id].flipped
     /\ ~outcome[id].priceRangeChanged
     /\ outcome[id].sameOnChain)
      => outcome[id].sendCalls = 0

\* The case of C10 has happened: a sequential check of a position with a
\* lastStatus finished with nothing changed since the previous snapshot.
C10_Witness ==
  \E id \in StoredIds :
    /\ outcome[id].ok /\ outcome[id].solo
    /\ ~outcome[id].first
    /\ ~outcome[id].flipped
    /\ ~outcome[id].priceRangeChanged
    /\ outcome[id].sameOnChain
    /\ snap[id].liquidityX = 1
    /\ outcome[id].sendCalls = 0

\* ---------------------------------------------------------------------------
\* Registry operations
\* ---------------------------------------------------------------------------

\* The step is a public call of the named operation.
CallOf(op) == calls' = calls + 1 /\ ret'.op = op

\* C15: registerTask returns an id that no task of the registry has, adds
\* exactly one task, with retryAttempts = 0 and nextRunTime = now + interval,
\* and leaves every task registered before the call in the registry with its
\* fields unchanged.
C15_RegisterTaskFreshId ==
  [][CallOf("registerTask") =>
       LET id == ret'.value
       IN /\ id \notin DOMAIN tasks
          /\ DOMAIN tasks' = DOMAIN tasks \cup {id}
          /\ objs'[tasks'[id]].retryAttempts = 0
          /\ objs'[tasks'[id]].nextRunTime = now + objs'[tasks'[id]].interval
          /\ \A i \in DOMAIN tasks :
               /\ i \in DOMAIN tasks'
               /\ tasks'[i] = tasks[i]
               /\ objs'[tasks[i]] = objs[tasks[i]]
    ]_schedVars

\* C15 witness: two registrations within one millisecond drew the same random
\* number, and the registry holds one task although two were registered.
C15_Witness ==
  /\ Len(objs) = 2
  /\ objs[1].id = objs[2].id
  /\ Cardinality(DOMAIN tasks) = 1
  /\ ret.op = "registerTask"

\* C16: updateTask with an unknown id returns false and changes no task; with
\* a known id it returns true, writes the given fields into that task and into
\* no other, and sets nextRunTime to lastRunTime + the new interval when the
\* update carries an interval and the task has a lastRunTime; nextRunTime stays
\* as it was otherwise, in particular when the task has never run.
C16_UpdateTaskMergesOneTask ==
  [][\A id \in DOMAIN tasks \cup {UnknownId}, u \in UpdateInputs :
       updateTask(id, u) =>
         IF id \notin DOMAIN tasks
         THEN ret'.value = FALSE /\ objs' = objs /\ tasks' = tasks
         ELSE LET o == tasks[id]
              IN /\ ret'.value = TRUE
                 /\ tasks' = tasks
                 /\ Len(objs') = Len(objs)
                 /\ \A p \in DOMAIN objs \ {o} : objs'[p] = objs[p]
                 /\ \A f \in DOMAIN u : objs'[o][f] = u[f]
                 /\ \A f \in DOMAIN objs[o] \ (DOMAIN u \cup {"nextRunTime"}) :
                      objs'[o][f] = objs[o][f]
                 /\ objs'[o].nextRunTime =
                      IF "interval" \in DOMAIN u /\ objs[o].lastRunTime # NoTime
                      THEN objs[o].lastRunTime + u["interval"]
                      ELSE objs[o].nextRunTime
    ]_schedVars

\* C16 witness: an interval update has just been applied to a task that ran
\* earlier, and has moved its nextRunTime to two poll periods after that run.
C16_Witness ==
  /\ ret = Returned("updateTask", TRUE)
  /\ \E o \in Registered :
       /\ objs[o].interval = 2 * pollInterval
       /\ objs[o].lastRunTime # NoTime
       /\ objs[o].lastRunTime < now
       /\ objs[o].nextRunTime = objs[o].lastRunTime + 2 * pollInterval

\* The executions of task object o begun by the step.
StartedBy(o) ==
  {e \in execs' : e.obj = o /\ \A f \in execs : f.obj = o => f.n # e.n}

\* C17: removeTask returns false and changes nothing for an unknown id; for a
\* known id it returns true and takes the task out of the registry without
\* touching its executions, so a callback in flight still settles; and no step
\* afterwards, whether that callback resolved or rejected, begins an execution
\* of a task that is out of the registry.
C17_RemovedTaskNeverRestarted ==
  [][/\ \A id \in DOMAIN tasks \cup {UnknownId} :
          removeTask(id) =>
            /\ ret'.value = (id \in DOMAIN tasks)
            /\ id \notin DOMAIN tasks'
            /\ \A i \in DOMAIN tasks \ {id} :
                 i \in DOMAIN tasks' /\ tasks'[i] = tasks[i]
            /\ objs' = objs /\ execs' = execs
     /\ \A o \in DOMAIN objs \ {tasks[i] : i \in DOMAIN tasks} :
          /\ StartedBy(o) = {}
          /\ \A e \in ExecsOf(o) : e \in execs' \/ Settled(e)
    ]_schedVars

\* C17 witness: the only task ever registered was removed while its callback
\* was in flight, and the callback has just resolved while the polling loop is
\* running.
C17_Witness ==
  /\ Len(objs) = 1
  /\ tasks = << >>
  /\ running
  /\ execs = {}
  /\ emitted = <<[type |-> "taskComplete", taskId |-> objs[1].id]>>
  /\ ~objs[1].runningPromise

\* ---------------------------------------------------------------------------
\* The polling loop
\* ---------------------------------------------------------------------------

\* C18: whatever start() and stop() calls were made, a stop() directly
\* followed by a start() included, at most one poll timer is pending, so poll
\* cycles come one poll period apart.
C18_AtMostOnePollTimer == Len(timers) <= 1

\* C18 witness: stop() and then start() were called while the timer of the
\* first polling loop was still pending, and the scheduler is running.
C18_Witness ==
  /\ running
  /\ ret = Returned("start", "undefined")
  /\ Len(timers) = 2

\* ---------------------------------------------------------------------------
\* runTaskNow
\* ---------------------------------------------------------------------------

\* The retry bookkeeping of a rejection of task object o, in terms of the
\* fields the task had before the step.
RetryBookkeeping(o) ==
  LET task == objs[o]
  IN IF task.retryAttempts < task.maxRetries
     THEN /\ objs'[o].retryAttempts = task.retryAttempts + 1
          /\ objs'[o].nextRunTime = now + task.retryDelay * Pow2(task.retryAttempts)
          /\ emitted' = <<>>
     ELSE /\ objs'[o].retryAttempts = 0
          /\ objs'[o].nextRunTime = task.nextRunTime
          /\ emitted' = <<[type |-> "taskFailed", taskId |-> task.id]>>

\* C20: runTaskNow with an unknown id fails with the not-found error and
\* changes no task; with a known id it begins an execution at once, whatever
\* the task's nextRunTime.  When that execution resolves the caller gets the
\* callback's result; when it rejects, the task gets the retry bookkeeping that
\* a poll-started execution gets, and the caller gets the callback's error.
C20_RunTaskNow ==
  [][/\ \A id \in DOMAIN tasks \cup {UnknownId} :
          runTaskNow(id) =>
            IF id \notin DOMAIN tasks
            THEN /\ ret'.value = "Task not found"
                 /\ objs' = objs /\ tasks' = tasks /\ execs' = execs
            ELSE /\ ret'.value = "pending"
                 /\ \E e \in StartedBy(tasks[id]) : e.start = now /\ ~e.byPoll
                 /\ objs'[tasks[id]].lastRunTime = now
                 /\ objs'[tasks[id]].runningPromise
     /\ \A e \in execs :
          /\ Rejected(e) => RetryBookkeeping(e.obj)
          /\ (Rejected(e) /\ ~e.byPoll)
               => ret' = Returned("runTaskNow rejected", ErrorOf(e))
          /\ (Settled(e) /\ ~Rejected(e) /\ ~e.byPoll)
               => ret' = Returned("runTaskNow resolved", ResultOf(e))
    ]_schedVars

\* C20 witness: a task whose nextRunTime had not come was run by runTaskNow
\* while the polling loop was stopped, its callback rejected, and the caller
\* has the error while the task waits for its first retry.
C20_Witness ==
  /\ ~running /\ timers = <<>>
  /\ ret.op = "runTaskNow rejected"
  /\ \E o \in Registered :
       /\ objs[o].lastRunTime = now
       /\ objs[o].lastRunTime < now + objs[o].interval
       /\ objs[o].retryAttempts = 1
       /\ objs[o].nextRunTime = now + objs[o].retryDelay
       /\ ~objs[o].runningPromise

\* ---------------------------------------------------------------------------
\* Properties of the bulk check
\* ---------------------------------------------------------------------------

\* s is an initial part of t.
IsPrefix(s, t) == Len(s) <= Len(t) /\ SubSeq(t, 1, Len(s)) = s

\* The step writes the status that a check of position id fetched.
WrittenBy(c, id) ==
  /\ c.pid = id /\ c.pc = "fetch"
  /\ \E b \in ActiveBins, enr \in Enrichments :
       LET status == FetchedStatus(c.position, b, enr)
       IN /\ positions'[id].lastStatus = NewLastStatus(status)
          /\ histories'[id] = histories[id]
                \o <<StatusCheckRecord(c.position, status), UpdatedRecord(id)>>
          /\ file'[id] = serializePosition(positions'[id])

\* C11: when the check of one position of a bulk check fails, the bulk call
\* rejects, and that step leaves the history records, the lastStatus of every
\* position and the file as they are; no step ever takes a history record away
\* or changes a lastStatus other than by the write of a check of that position;
\* and a member check that gets its status after the rejection writes it all
\* the same.
C11_BulkRejectsWithoutRollback ==
  [][/\ \A c \in checks :
          (c.bulk # 0 /\ fetchFails(c))
            => /\ bulks'[c.bulk].state = "rejected"
               /\ histories' = histories
               /\ positions' = positions
               /\ file' = file
     /\ \A id \in StoredIds :
          /\ IsPrefix(histories[id], histories'[id])
          /\ (positions'[id] # positions[id] \/ histories'[id] # histories[id])
               => \E c \in checks : WrittenBy(c, id)
     /\ \A c \in checks, b \in ActiveBins, enr \in Enrichments :
          (c.bulk # 0 /\ bulks[c.bulk].state = "rejected" /\ fetchReturns(c, b, enr))
            => WrittenBy(c, c.pid)
    ]_vars

\* C11 witness: a bulk check over two ACTIVE positions rejected because the
\* check of the second failed before the first had written anything, and the
\* first has written its two history records and its lastStatus since.
C11_Witness ==
  /\ Len(bulks) = 1
  /\ bulks[1].members = PositionIds
  /\ bulks[1].state = "rejected"
  /\ bulks[1].writtenAtRejection[PositionIds[1]] = 0
  /\ outcome[PositionIds[2]].finished /\ ~outcome[PositionIds[2]].ok
  /\ Len(histories[PositionIds[1]]) = 2
  /\ positions[PositionIds[1]].lastStatus.defined
  /\ file[PositionIds[1]].lastStatus.defined
  /\ histories[PositionIds[2]] = <<>>

\* The checkPositionStatus calls that the step begins for position id.
ChecksBegun(id) ==
  {c \in checks' : c.pid = id /\ \A d \in checks : d.n # c.n}

\* C14: a step that begins a bulk check begins exactly one checkPositionStatus
\* call for every stored position whose status is ACTIVE, on the stored
\* position object, and none for a position whose status is CLOSED, PENDING
\* or ERROR.
C14_BulkChecksActiveOnly ==
  [][Len(bulks') = Len(bulks) + 1 =>
       \A id \in StoredIds :
         IF positions[id].status = "active"
         THEN /\ Cardinality(ChecksBegun(id)) = 1
              /\ \A c \in ChecksBegun(id) :
                   /\ c.bulk = Len(bulks') /\ c.pc = "fetch"
                   /\ c.position = positions[id]
              /\ Len(SelectSeq(bulks'[Len(bulks')].members, LAMBDA m : m = id)) = 1
         ELSE /\ positions[id].status \in {"closed", "pending", "error"}
              /\ ChecksBegun(id) = {}
              /\ Len(SelectSeq(bulks'[Len(bulks')].members, LAMBDA m : m = id)) = 0
    ]_vars

\* C14 witness: a bulk check was begun over a PENDING and an ACTIVE position
\* and is waiting for its one check, that of the ACTIVE position.
C14_Witness ==
  /\ positions[PositionIds[1]].status = "pending"
  /\ positions[PositionIds[2]].status = "active"
  /\ Len(bulks) = 1
  /\ bulks[1].state = "pending"
  /\ Cardinality(checks) = 1
  /\ \A c \in checks : c.pid = PositionIds[2] /\ c.bulk = 1

\* ---------------------------------------------------------------------------
\* Properties of the monitor's use of the scheduler
\* ---------------------------------------------------------------------------

\* The 'Position Status Monitor' tasks among the task objects os that the
\* registry reg holds.
MonitorTasksIn(reg, os) ==
  {o \in {reg[i] : i \in DOMAIN reg} : os[o].fn = CheckAllFn}

\* C13: whatever startMonitoring, stopMonitoring and updateMonitorInterval
\* calls were made, the registry holds at most one monitoring task; a
\* startMonitoring leaves exactly one, the task it has just registered; a
\* stopMonitoring leaves none, and changes nothing of the scheduler or of the
\* monitor when no monitoring task was registered.
C13_AtMostOneMonitorTask ==
  [][/\ Cardinality(MonitorTasksIn(tasks', objs')) <= 1
     /\ CallOf("startMonitoring") =>
          /\ MonitorTasksIn(tasks', objs') = {Len(objs')}
          /\ Len(objs') = Len(objs) + 1
          /\ monitorTaskId' \in DOMAIN tasks'
          /\ tasks'[monitorTaskId'] = Len(objs')
          /\ objs'[Len(objs')].interval = monitorInterval'
     /\ CallOf("stopMonitoring") =>
          /\ MonitorTasksIn(tasks', objs') = {}
          /\ MonitorTasksIn(tasks, objs) = {} =>
               UNCHANGED <<tasks, objs, running, timers, execs, monVars>>
    ]_vars

\* C13 witness: startMonitoring was called a second time while the bulk check
\* begun by the first monitoring task was in flight; the registry holds the
\* second task alone.
C13_Witness ==
  /\ ret.op = "startMonitoring"
  /\ Len(objs) = 2
  /\ objs[1].fn = CheckAllFn /\ objs[1].runningPromise
  /\ execs # {}
  /\ checks # {}
  /\ MonitorTasksIn(tasks, objs) = {2}
  /\ tasks[monitorTaskId] = 2

\* The step begins an execution of task object o from a poll cycle.
BegunByPoll(o) ==
  \/ \E e \in StartedBy(o) : e.byPoll
  \/ /\ ret' = NoRet
     /\ objs'[o].lastRunTime # objs[o].lastRunTime

\* C19: a poll cycle begins an execution only while the scheduler is running,
\* so after stop() none begins before start() is called again.  stop() itself
\* leaves the executions and the checks in flight as they are, and while the
\* scheduler is stopped they go on as they would otherwise: a check that gets
\* its status writes it, a check whose notification settles has sent it, and
\* an execution that settles gets its bookkeeping.
C19_StopLetsInFlightWorkFinish ==
  [][/\ \A o \in DOMAIN objs : BegunByPoll(o) => running'
     /\ CallOf("stop") =>
          /\ ~running'
          /\ UNCHANGED <<objs, tasks, execs, timers, monVars>>
     /\ ~running =>
          /\ \A c \in checks, b \in ActiveBins, enr \in Enrichments :
               fetchReturns(c, b, enr) => WrittenBy(c, c.pid)
          /\ \A c \in checks :
               sendSettles(c) => /\ outcome'[c.pid].ok
                                 /\ outcome'[c.pid].sendCalls = 1
          /\ \A e \in execs :
               /\ Rejected(e) => RetryBookkeeping(e.obj)
               /\ (Settled(e) /\ ~Rejected(e)) =>
                    /\ objs'[e.obj].retryAttempts = 0
                    /\ emitted' = <<[type |-> "taskComplete",
                                     taskId |-> objs[e.obj].id]>>
               /\ Settled(e) => (~e.abandoned => ~objs'[e.obj].runningPromise)
    ]_vars

\* C19 witness: the scheduler is stopped, and the execution of the monitoring
\* task that was in flight has just completed: its check has written the
\* status and the history records of the position, its notification was sent,
\* and the task's bookkeeping is done.
C19_Witness ==
  /\ ~running
  /\ execs = {} /\ checks = {}
  /\ Len(bulks) = 1 /\ bulks[1].state = "resolved" /\ bulks[1].exec # NoExec
  /\ emitted # <<>>
  /\ outcome[PositionIds[1]].ok /\ outcome[PositionIds[1]].sendCalls = 1
  /\ Len(histories[PositionIds[1]]) = 2
  /\ file[PositionIds[1]].lastStatus.defined
  /\ \E o \in DOMAIN objs : objs[o].lastRunTime # NoTime /\ ~objs[o].runningPromise

\* ---------------------------------------------------------------------------
\* Properties of checkNewPosition
\* ---------------------------------------------------------------------------

\* The check that checkNewPosition(id) awaits, when it is waiting for one.
AwaitedByNewPosition == {c \in checks : c.via = "checkNewPosition"}

\* C12: checkNewPosition never throws.  Called with an id that is not in the
\* store it returns normally in the same step, appends no history record,
\* changes no position, begins no check and sends no notification; called
\* with a known id it returns normally when its check settles, also when the
\* check fails.
C12_CheckNewPositionNeverThrows ==
  [][/\ ret'.op = "checkNewPosition" => ret'.value # "thrown"
     /\ \A id \in StoredIds \cup {UnknownPositionId} :
          checkNewPosition(id) /\ id \notin DOMAIN positions
          => /\ ret' = Returned("checkNewPosition", "returned")
             /\ UNCHANGED <<storeVars, checks, started, bulks>>
     /\ \A c \in AwaitedByNewPosition :
          c \notin checks' /\ (\A d \in checks' : d.n # c.n)
          => ret' = Returned("checkNewPosition", "returned")]_vars

\* A call for a stored position has returned after its check failed with
\* nothing written, and a call with the unknown id has returned as well.
C12_Witness ==
  /\ ret = Returned("checkNewPosition", "returned")
  /\ calls >= 2
  /\ \E id \in StoredIds :
       /\ outcome[id].finished /\ ~outcome[id].ok
       /\ histories[id] = <<>>
  /\ checks = {}

\* ---------------------------------------------------------------------------
\* Properties of a check: notification failures, the range test, the order
\* ---------------------------------------------------------------------------

\* The status_check record that check c appended is in the history.
RecordOfCheckIn(h, c) ==
  \E k \in DOMAIN h :
    /\ h[k].eventType = "status_check"
    /\ h[k].positionId = c.pid
    /\ h[k].priceAtEvent = c.status.currentPrice

\* C21: when sendMessage rejects, checkPositionStatus still returns normally:
\* the bulk call it belongs to is not rejected by it, the scheduler counts no
\* failure and schedules no retry, and the history record and the lastStatus
\* the check wrote stay in the store.
C21_SendFailureDoesNotFailCheck ==
  [][\A c \in checks :
       sendRejects(c)
       => /\ outcome'[c.pid].finished /\ outcome'[c.pid].ok
          /\ outcome'[c.pid].delivered = 0
          /\ positions' = positions /\ histories' = histories /\ file' = file
          /\ RecordOfCheckIn(histories'[c.pid], c)
          /\ positions'[c.pid].lastStatus.defined
          /\ c.bulk # 0 => bulks'[c.bulk].state \in {bulks[c.bulk].state, "resolved"}
          /\ \A o \in DOMAIN objs :
               /\ hist'[o].fails <= hist[o].fails
               /\ objs'[o].retryAttempts <= objs[o].retryAttempts
               /\ objs'[o].nextRunTime = objs[o].nextRunTime
          /\ \A k \in DOMAIN emitted' : emitted'[k].type # "taskFailed"]_vars

\* The monitoring task's bulk check has resolved after the one send of its
\* check was rejected, with the records of the check in the store.
C21_Witness ==
  \E id \in StoredIds, b \in DOMAIN bulks :
    /\ outcome[id].finished /\ outcome[id].ok
    /\ outcome[id].sendCalls = 1 /\ outcome[id].delivered = 0
    /\ bulks[b].exec # NoExec /\ bulks[b].state = "resolved"
    /\ bulks[b].members = <<id>>
    /\ Len(histories[id]) >= 2
    /\ positions[id].lastStatus.defined
    /\ \A o \in DOMAIN objs : objs[o].fn = CheckAllFn => objs[o].retryAttempts = 0

\* C22: the binInRange a check computes and stores equals
\* lowerBinId <= activeBinId /\ activeBinId <= upperBinId for the active bin it
\* fetched, both boundary bins counting as in range: in the lastStatus of the
\* position, in the saved file, and in what the check reports.
C22_BinInRangeInclusive ==
  /\ \A id \in StoredIds :
       positions[id].lastStatus.defined
       => /\ positions[id].lastStatus.binInRange =
               (/\ positions[id].lowerBinId <= positions[id].lastStatus.activeBin
                /\ positions[id].lastStatus.activeBin <= positions[id].upperBinId)
          /\ file[id].lastStatus.binInRange = positions[id].lastStatus.binInRange
  /\ \A c \in checks :
       c.pc = "send"
       => c.status.binInRange = (/\ c.position.lowerBinId <= c.status.activeBin
                                 /\ c.status.activeBin <= c.position.upperBinId)

\* One position was last checked on the lowest bin of its range and is in
\* range, the other on a bin above its only bin and is out of range.
C22_Witness ==
  /\ positions[PositionIds[1]].lastStatus.defined
  /\ positions[PositionIds[1]].lastStatus.activeBin = TestLowerBinId
  /\ positions[PositionIds[1]].lastStatus.binInRange
  /\ positions[PositionIds[2]].lastStatus.defined
  /\ positions[PositionIds[2]].lastStatus.activeBin = TestUpperBinId
  /\ ~positions[PositionIds[2]].lastStatus.binInRange

\* ---------------------------------------------------------------------------
\* Properties of the monitor's commands
\* ---------------------------------------------------------------------------

\* C23: updateMonitorInterval while monitoring is started changes the
\* interval of the monitoring task in place: the task keeps its id, the
\* registry holds the same tasks and task objects, no execution begins or
\* ends, and retryAttempts, lastRunTime and the running marker of the task are
\* what they were.
C23_UpdateIntervalInPlace ==
  [][CallOf("updateMonitorInterval") /\ monitorTaskId # UndefinedId
     => /\ monitorTaskId' = monitorTaskId
        /\ tasks' = tasks
        /\ DOMAIN objs' = DOMAIN objs
        /\ execs' = execs
        /\ monitorTaskId \in DOMAIN tasks
        /\ LET o == tasks[monitorTaskId]
           IN /\ objs'[o].interval = monitorInterval'
              /\ objs'[o].id = objs[o].id
              /\ objs'[o].retryAttempts = objs[o].retryAttempts
              /\ objs'[o].lastRunTime = objs[o].lastRunTime
              /\ objs'[o].runningPromise = objs[o].runningPromise
              /\ \A p \in DOMAIN objs \ {o} : objs'[p] = objs[p]]_vars

\* The interval was updated while the monitoring task had an execution in
\* flight.
C23_Witness ==
  /\ ret.op = "updateMonitorInterval"
  /\ monitorTaskId # UndefinedId
  /\ monitorTaskId \in DOMAIN tasks
  /\ objs[tasks[monitorTaskId]].interval = 2 * pollInterval
  /\ objs[tasks[monitorTaskId]].runningPromise
  /\ objs[tasks[monitorTaskId]].lastRunTime # NoTime

\* ---------------------------------------------------------------------------
\* Properties of the position storages
\* ---------------------------------------------------------------------------

\* The step leaves position id as it was but for the fields of updates, which
\* it writes, and updatedAt, which it sets to the current time; every other
\* position is as it was.
MergedInto(id, updates) ==
  /\ id \in DOMAIN positions
  /\ DOMAIN positions' = DOMAIN positions
  /\ positions'[id].updatedAt = now
  /\ \A f \in DOMAIN updates : positions'[id][f] = updates[f]
  /\ \A f \in DOMAIN positions[id] \ (DOMAIN updates \cup {"updatedAt"}) :
       positions'[id][f] = positions[id][f]
  /\ \A other \in DOMAIN positions \ {id} : positions'[other] = positions[other]

\* C24: updatePosition with an id the storage does not hold fails with the
\* not-found error and leaves every position and every history as it was;
\* with an id it holds, the step that writes the position merges the given
\* fields into that position, sets its updatedAt to the current time and
\* leaves the other fields and the other positions as they were.
C24_UpdatePositionMerges ==
  [][/\ \A id \in StoreIds, u \in StoreUpdates :
          updatePosition(id, u)
          => IF id \notin DOMAIN positions
             THEN /\ ret'.value = NotFound
                  /\ UNCHANGED <<positions, histories, file, dbCalls>>
             ELSE storage = "file" => MergedInto(id, u)
     /\ \A call \in dbCalls :
          call.op = "updatePosition" /\ dbCallResumes(call)
          => \E u \in StoreUpdates :
               /\ \A f \in DOMAIN u : call.position[f] = u[f]
               /\ MergedInto(call.id, u)]_vars

\* updatePosition has failed for the unknown id and has written the chat id
\* to the stored position, in a file storage.
C24_Witness ==
  /\ storage = "file"
  /\ calls >= 2
  /\ PositionIds[1] \in DOMAIN positions
  /\ positions[PositionIds[1]].chatId = OtherChatId
  /\ positions[PositionIds[1]].updatedAt = now
  /\ positions[PositionIds[1]].status = "active"
  /\ ret = Returned("updatePosition", NotFound)

\* C25: the history of a position is append-only in both storages: whatever
\* the operation (savePosition, updatePosition, deletePosition,
\* savePositionHistory, and the later queries of a suspended call), the
\* history of every position before the step is a prefix of its history after
\* the step, also when the step deletes the position.
C25_HistoryAppendOnly ==
  [][\A id \in DOMAIN histories :
       /\ id \in DOMAIN histories'
       /\ IsPrefix(histories[id], histories'[id])]_vars

\* A file storage has deleted a position whose history held a record, and
\* the history holds that record and the 'deleted' record.
C25_Witness ==
  /\ storage = "file"
  /\ PositionIds[1] \notin DOMAIN positions
  /\ Len(HistoryOf(PositionIds[1])) >= 2
  /\ HistoryOf(PositionIds[1])[Len(HistoryOf(PositionIds[1]))].eventType = "deleted"

\* The timestamps of the records of h never decrease.
AscendingTimestamps(h) ==
  \A i, j \in DOMAIN h : i < j => h[i].timestamp <= h[j].timestamp

\* C26: after any sequence of storage calls, getPositionHistory returns the
\* records of every position in ascending order of their timestamp, also when
\* the records were saved with timestamps that are not in the order of
\* insertion.
C26_HistoryAscending ==
  \A id \in StoreIds \cup StoredIds : AscendingTimestamps(getPositionHistory(id))

\* A Prisma storage holds, for one position, a record saved after a record
\* with a later timestamp, and returns the two in the order of their
\* timestamps.
C26_Witness ==
  /\ storage = "prisma"
  /\ Len(HistoryOf(PositionIds[1])) = 2
  /\ ~AscendingTimestamps(HistoryOf(PositionIds[1]))
  /\ AscendingTimestamps(getPositionHistory(PositionIds[1]))
  /\ Len(getPositionHistory(PositionIds[1])) = 2

\* What loading a position saved to positions.json yields.
RoundTrip(position) == deserializePosition(serializePosition(position))

\* Two values of a field are the same, null and undefined both standing for
\* no value.
SameValue(a, b) == a = b \/ {a, b} \subseteq {Undef, Null}

SameLastStatus(a, b) ==
  /\ a.defined = b.defined
  /\ \A f \in {"activeBin", "currentPrice", "binInRange", "timestamp",
                "currentLowerPrice", "currentUpperPrice", "liquidityX",
                "rewards", "lastUpdatedAt"} : SameValue(a[f], b[f])
  /\ SameValue(a.fees.pending, b.fees.pending)
  /\ SameValue(a.fees.claimed, b.fees.claimed)

\* C27: a position saved to the file storage and loaded back is the same
\* position: every field of the lastStatus a reconciliation wrote (activeBin,
\* currentPrice, binInRange, timestamp, currentLowerPrice, currentUpperPrice,
\* liquidity, fees, rewards, lastUpdatedAt) has the value it had.
C27_RoundTrip ==
  \A id \in DOMAIN positions :
    /\ SameLastStatus(RoundTrip(positions[id]).lastStatus, positions[id].lastStatus)
    /\ RoundTrip(positions[id]).updatedAt = positions[id].updatedAt
    /\ SameLastStatus(deserializePosition(file[id]).lastStatus,
                      positions[id].lastStatus)

\* A check has written a lastStatus with on-chain data, and the round trip
\* gives back its activeBin, currentPrice, binInRange and timestamp.
C27_Witness ==
  \E id \in DOMAIN positions :
    LET ls == positions[id].lastStatus
        back == RoundTrip(positions[id]).lastStatus
    IN /\ ls.defined /\ ls.liquidityX = 1 /\ ls.currentLowerPrice # Undef
       /\ back.defined
       /\ back.activeBin = ls.activeBin
       /\ back.currentPrice = ls.currentPrice
       /\ back.binInRange = ls.binInRange
       /\ back.timestamp = ls.timestamp
       /\ RoundTrip(positions[id]).updatedAt = positions[id].updatedAt

\* ---------------------------------------------------------------------------
\* Invariants of a task's retry counter and next run time
\* ---------------------------------------------------------------------------

\* C28: whenever no execution of a task is in flight, its retryAttempts is
\* between 0 and its maxRetries, whatever registerTask, updateTask, poll and
\* runTaskNow calls came before.
C28_RetryAttemptsWithinMax ==
  \A o \in DOMAIN objs :
    ExecsOf(o) = {}
    => 0 <= objs[o].retryAttempts /\ objs[o].retryAttempts <= objs[o].maxRetries

\* A task that has failed once and waits for its retry, its counter within
\* its maxRetries.
C28_Witness ==
  \E o \in Registered :
    /\ ExecsOf(o) = {}
    /\ objs[o].retryAttempts = 1
    /\ objs[o].maxRetries = 2
    /\ hist[o].fails = 1

\* C29: every assignment the scheduler makes to a task's nextRunTime (in
\* registerTask, at the start of executeTask, when it schedules a retry, when
\* poll abandons a timed-out execution, and in updateTask when the interval
\* changes) sets it to a time strictly later than the time of the assignment.
C29_NextRunTimeInFuture ==
  [][\A o \in DOMAIN objs' :
       (o \notin DOMAIN objs \/ objs'[o].nextRunTime # objs[o].nextRunTime)
       => objs'[o].nextRunTime > now']_vars

\* A retry has been scheduled for a time after the failure.
C29_Witness ==
  \E o \in Registered :
    /\ objs[o].retryAttempts = 1
    /\ ExecsOf(o) = {}
    /\ objs[o].lastRunTime = now
    /\ objs[o].nextRunTime = now + objs[o].retryDelay

\* The history of the position of check c, as the store holds it.
HistoryAt(c) == histories[c.pid]

\* What the store holds of check c, which has had its position to itself,
\* at each of its awaits: nothing of it before savePositionHistory; its
\* status_check record, with lastStatus as it was, before updatePosition;
\* and both records, the new lastStatus and the saved file at sendMessage.
WrittenInOrder(c) ==
  LET h == HistoryAt(c)
      n == Len(h)
  IN /\ c.pc = "savePositionHistory"
          => positions[c.pid].lastStatus = c.position.lastStatus
     /\ c.pc = "updatePosition"
          => /\ n >= 1
             /\ h[n] = StatusCheckRecord(c.position, c.status)
             /\ positions[c.pid].lastStatus = c.position.lastStatus
     /\ c.pc = "send"
          => /\ n >= 2
             /\ h[n - 1] = StatusCheckRecord(c.position, c.status)
             /\ h[n] = UpdatedRecord(c.pid)
             /\ positions[c.pid].lastStatus = NewLastStatus(c.status)
             /\ file[c.pid] = serializePosition(positions[c.pid])

\* The check c as the next state holds it, if it is still in flight.
Continued(c) == {d \in checks' : d.pid = c.pid /\ d.n = c.n}

\* A write of check c that fails.
WriteFails(c) ==
  \E r \in SaveResults \ {"saved"} :
    savePositionHistorySettles(c, r) \/ updatePositionSettles(c, r)

\* Check c moves on only from the fetch, writing nothing, to
\* savePositionHistory, from there with its record pushed and saved to
\* updatePosition, and from there with lastStatus overwritten and saved to
\* sendMessage; and a step in which a write of c fails ends the check,
\* rejected, with no sendMessage call.
StepsInOrder(c) ==
  /\ \A d \in Continued(c) :
       d.pc # c.pc =>
         \/ /\ c.pc = "fetch" /\ d.pc = "savePositionHistory"
            /\ histories' = histories /\ positions' = positions /\ file' = file
         \/ /\ c.pc = "savePositionHistory" /\ d.pc = "updatePosition"
            /\ histories'[c.pid] =
                 Append(histories[c.pid], StatusCheckRecord(c.position, d.status))
            /\ positions' = positions
            /\ file' = SavedFile(positions')
         \/ /\ c.pc = "updatePosition" /\ d.pc = "send"
            /\ histories'[c.pid] = Append(histories[c.pid], UpdatedRecord(c.pid))
            /\ positions'[c.pid].lastStatus = NewLastStatus(c.status)
            /\ file' = SavedFile(positions')
  /\ WriteFails(c)
       => /\ Continued(c) = {}
          /\ outcome'[c.pid].finished /\ ~outcome'[c.pid].ok
          /\ outcome'[c.pid].sendCalls = 0

\* C30: within one checkPositionStatus call the status is fetched, then the
\* status_check history record is appended, then lastStatus is overwritten,
\* and only after both writes have succeeded is a notification evaluated and
\* sent; if either write fails, no notification is sent for that check.
C30_FetchPersistNotify ==
  /\ [](\A c \in checks : c.solo => WrittenInOrder(c))
  /\ [][\A c \in checks : StepsInOrder(c)]_vars

\* Both cases have happened: the check of one position has saved both
\* writes and waits on sendMessage, and the check of the other has been
\* rejected by a failed write, with its record pushed and nothing sent.
C30_Witness ==
  /\ \E c \in checks : c.solo /\ c.pc = "send" /\ c.pid = PositionIds[1]
  /\ outcome[PositionIds[2]].finished
  /\ ~outcome[PositionIds[2]].ok
  /\ Len(histories[PositionIds[2]]) = 2
  /\ file[PositionIds[2]] # serializePosition(positions[PositionIds[2]])

\* C31: when resolving the pool or fetching the active bin fails,
\* checkPositionStatus rejects and leaves the store as it was: no history
\* record is appended, lastStatus is unchanged, and no message of any kind is
\* sent to a chat.
C31_FetchFailureLeavesStore ==
  [][\A c \in checks :
       fetchFails(c)
         => /\ histories' = histories
            /\ positions' = positions
            /\ file' = file
            /\ Continued(c) = {}
            /\ \A d \in checks' : d.pc = "send" => d \in checks
            /\ outcome'[c.pid].finished
            /\ ~outcome'[c.pid].ok
            /\ outcome'[c.pid].sendCalls = 0]_vars

\* A check of a position that an earlier check has recorded has failed at
\* the fetch.
C31_Witness ==
  \E id \in StoredIds :
    /\ outcome[id].finished
    /\ ~outcome[id].ok
    /\ ~outcome[id].first
    /\ positions[id].lastStatus.defined
    /\ Len(histories[id]) = 2

\* The enrichment that throws (positionMonitor.ts lines 251-260).
FailedEnrichment == CHOOSE enr \in Enrichments : enr.kind = "failed"

\* The sections of the message that check d, waiting on sendMessage, sends.
SectionsOf(d) == NotifySections(d.position.lastStatus, d.status)

\* C32: when the active-bin fetch succeeds but the on-chain position fetch or
\* the bin-range fetch fails, checkPositionStatus still completes
\* successfully: it appends a status_check history record and overwrites
\* lastStatus with the active bin, binInRange and the current price, and it
\* raises no range-drift notification for that check.
C32_DegradedCheckCompletes ==
  [][\A c \in checks :
       /\ \A b \in ActiveBins :
            fetchReturns(c, b, FailedEnrichment)
              => /\ histories'[c.pid] =
                      histories[c.pid] \o
                        << [positionId |-> c.pid, timestamp |-> now,
                            eventType |-> "status_check",
                            priceAtEvent |-> PricePerToken(b)],
                           UpdatedRecord(c.pid) >>
                 /\ positions'[c.pid].lastStatus.defined
                 /\ positions'[c.pid].lastStatus.activeBin = b
                 /\ positions'[c.pid].lastStatus.binInRange =
                      (c.position.lowerBinId <= b /\ b <= c.position.upperBinId)
                 /\ positions'[c.pid].lastStatus.currentPrice = PricePerToken(b)
                 /\ file'[c.pid] = serializePosition(positions'[c.pid])
                 /\ \/ /\ Continued(c) = {}
                       /\ outcome'[c.pid].finished /\ outcome'[c.pid].ok
                       /\ outcome'[c.pid].sendCalls = 0
                    \/ \E d \in Continued(c) :
                         /\ d.pc = "send"
                         /\ "price range has changed" \notin SectionsOf(d)
       /\ (c.pc = "send" /\ c.status.degraded /\ sendResolves(c))
            => /\ outcome'[c.pid].finished /\ outcome'[c.pid].ok
               /\ "price range has changed" \notin outcome'[c.pid].sections]_vars

\* A degraded check of a position that was in range has found it out of
\* range, has recorded that, and waits on sendMessage with the flip alone.
C32_Witness ==
  \E c \in checks :
    /\ c.pc = "send"
    /\ c.status.degraded
    /\ c.position.lastStatus.defined
    /\ SectionsOf(c) = {"now out of range"}
    /\ positions[c.pid].lastStatus.activeBin = 250
    /\ ~positions[c.pid].lastStatus.binInRange
    /\ Len(histories[c.pid]) = 4

\* The status_check records of a history.
StatusChecksIn(h) == SelectSeq(h, LAMBDA r : r.eventType = "status_check")

\* The on-chain fields of the lastStatus written from the enrichment enr
\* (positionMonitor.ts lines 308-313): what the fetch found, null where it
\* found no matching position, nothing where it failed.
OnChainWritten(ls, enr) ==
  CASE enr.kind = "found" ->
         /\ ls.liquidityX = enr.oc.liquidity /\ ls.fees = enr.oc.fees
         /\ ls.rewards = enr.oc.rewards /\ ls.lastUpdatedAt = enr.oc.lastUpdatedAt
    [] enr.kind = "nomatch" ->
         /\ ls.liquidityX = Null /\ ls.fees = NoFees
         /\ ls.rewards = Null /\ ls.lastUpdatedAt = Null
    [] OTHER ->
         /\ ls.liquidityX = Undef /\ ls.fees = UndefFees
         /\ ls.rewards = Undef /\ ls.lastUpdatedAt = Null

\* C33: every successful checkPositionStatus appends exactly one history
\* record with eventType 'status_check' and priceAtEvent equal to the fetched
\* current price, and replaces lastStatus as a whole: a field of the previous
\* lastStatus that the new snapshot does not carry is not retained.
C33_OneRecordWholeReplacement ==
  [][\A c \in checks, b \in ActiveBins, enr \in Enrichments :
       fetchReturns(c, b, enr)
         => LET before == StatusChecksIn(histories[c.pid])
                after == StatusChecksIn(histories'[c.pid])
                ls == positions'[c.pid].lastStatus
            IN /\ Len(after) = Len(before) + 1
               /\ SubSeq(after, 1, Len(before)) = before
               /\ after[Len(after)].priceAtEvent = PricePerToken(b)
               /\ after[Len(after)].positionId = c.pid
               /\ \A id \in StoredIds \ {c.pid} : histories'[id] = histories[id]
               /\ ls.defined
               /\ ls.activeBin = b
               /\ ls.currentPrice = PricePerToken(b)
               /\ OnChainWritten(ls, enr)]_vars

\* A degraded check of a position whose lastStatus carried on-chain
\* liquidity has written a lastStatus without it.
C33_Witness ==
  \E c \in checks :
    /\ c.pc = "send"
    /\ c.solo
    /\ c.status.degraded
    /\ c.position.lastStatus.defined
    /\ c.position.lastStatus.liquidityX = 1
    /\ positions[c.pid].lastStatus.liquidityX = Undef
    /\ Len(StatusChecksIn(histories[c.pid])) = 2

\* A chat id is mapped to the wallet, or stored on a position the wallet
\* owns.
DestinationExists(wallet) ==
  \/ Len(walletMap) > 0
  \/ \E id \in StoredIds :
       positions[id].userWallet = wallet /\ Truthy(positions[id].chatId)

\* C34: the notification destination of a position is the first chat id
\* mapped to its wallet, otherwise a chat id stored on any position owned by
\* the same wallet (the position's own chatId included); only when neither
\* exists is the notification skipped, and then nothing is sent and the check
\* still succeeds.
C34_DestinationResolved ==
  [][\A c \in checks, b \in ActiveBins, enr \in Enrichments :
       (/\ fetchReturns(c, b, enr)
        /\ telegramBot
        /\ NotifySections(c.position.lastStatus,
                          FetchedStatus(c.position, b, enr)) # {})
         => IF DestinationExists(c.position.userWallet)
            THEN \E d \in Continued(c) : d.pc = "send"
            ELSE /\ Continued(c) = {}
                 /\ outcome'[c.pid].finished /\ outcome'[c.pid].ok
                 /\ outcome'[c.pid].sendCalls = 0]_vars

\* No chat is mapped to the wallet, the first position of the wallet stores
\* a chat id, and the first check of the second position waits on
\* sendMessage.
C34_Witness ==
  /\ walletMap = <<>>
  /\ positions[PositionIds[1]].chatId = TestChatId
  /\ \E c \in checks :
       c.pid = PositionIds[2] /\ c.pc = "send" /\ ~c.position.lastStatus.defined

\* A step in which a check of position id saves the status it fetched.
SavedBy(id) ==
  {b \in ActiveBins :
     \E c \in ChecksOf(id), enr \in Enrichments : fetchReturns(c, b, enr)}

StartedThisPeriod == \E o \in Registered : objs[o].lastRunTime = now

\* C36: while the scheduler keeps running and a task stays registered and
\* enabled with a timeout set, the task is started again after each of its
\* executions, whether the callback succeeds, fails or never resolves: under
\* fair polling the task is executed infinitely often.
C36_ExecutedInfinitelyOften == []<>StartedThisPeriod

\* The task runs again while an execution that a poll abandoned is still
\* pending.
C36_Witness ==
  \E o \in Registered :
    /\ objs[o].lastRunTime = now
    /\ objs[o].runningPromise
    /\ \E e \in ExecsOf(o) : e.abandoned
    /\ \E e \in ExecsOf(o) : ~e.abandoned /\ e.start = now

\* C37: when a position has a previous lastStatus and a new check finds the
\* current price changed materially from lastStatus.currentPrice while the
\* active bin is still inside the position's range, checkPositionStatus
\* sends a notification.
C37_PriceChangeNotified ==
  [][\A c \in checks, b \in RangeBins :
       (/\ fetchReturns(c, b, FailedEnrichment)
        /\ DestinationResolvable
        /\ c.position.lastStatus.defined
        /\ c.position.lastStatus.binInRange
        /\ c.position.lowerBinId <= b /\ b <= c.position.upperBinId
        /\ PricePerToken(b) # c.position.lastStatus.currentPrice)
         => \E d \in Continued(c) : d.pc = "send"]_vars

\* A check has found the price at 30.0 after 22.5, with the position in range
\* before and after, and has finished without a message.
C37_Witness ==
  \E id \in StoredIds :
    /\ outcome[id].finished /\ outcome[id].ok
    /\ ~outcome[id].first /\ ~outcome[id].flipped
    /\ outcome[id].binInRange
    /\ outcome[id].sendCalls = 0
    /\ positions[id].lastStatus.currentPrice = 30 * PriceScale
    /\ \E i \in DOMAIN histories[id] :
         /\ histories[id][i].eventType = "status_check"
         /\ histories[id][i].priceAtEvent = (45 * PriceScale) \div 2

\* The sections that report a first check or a flip of the range membership.
TransitionSections == {"now being monitored", "now in range", "now out of range"}

\* C38: when two reconciliations of the same position overlap in time, one
\* range-membership flip or one first check produces at most one
\* notification in total: no two checks that started from the same
\* lastStatus of the position both send a message reporting the same
\* transition.
C38_OneNotificationPerTransition ==
  \A c1 \in checks, c2 \in checks :
    (/\ c1 # c2
     /\ c1.pid = c2.pid
     /\ c1.pc = "send" /\ c2.pc = "send"
     /\ c1.position.lastStatus = c2.position.lastStatus)
      => SectionsOf(c1) \cap SectionsOf(c2) \cap TransitionSections = {}

\* Two bulk checks overlap on a position, and the one that came to
\* sendMessage reports the first check.
C38_Witness ==
  \E c1 \in checks, c2 \in checks :
    /\ c1.pid = c2.pid
    /\ c1.bulk # 0 /\ c2.bulk # 0 /\ c1.bulk # c2.bulk
    /\ c1.pc = "send"
    /\ c2.pc = "fetch"
    /\ "now being monitored" \in SectionsOf(c1)

\* C39: a position created through the handlers' FilePositionStorage
\* instance is visible to the PositionMonitor's own instance, and a write
\* made through one instance never removes from the shared file a position
\* that was persisted through the other instance.
C39_InstancesShareStore ==
  /\ [](\A id \in DOMAIN positionStorage : id \in DOMAIN positions)
  /\ [][\A id \in DOMAIN file : id \in DOMAIN file']_vars

\* The position created through the handlers' instance was written to the
\* file, and a later write of the monitor's instance has left the file
\* without it.
C39_Witness ==
  /\ CreatedPositionId \in DOMAIN positionStorage
  /\ CreatedPositionId \notin DOMAIN positions
  /\ CreatedPositionId \notin DOMAIN file
  /\ \E id \in StoredIds : positions[id].lastStatus.defined

\* C40: in the database-backed storage, a reconciliation's lastStatus update
\* that interleaves with the owning workflow's change of the position's
\* status to CLOSED never reverts that status: when the reconciliation's
\* write follows the finished change to CLOSED, the status stays CLOSED and
\* only lastStatus and updatedAt change.
C40_ReconciliationKeepsClosed ==
  [][\A call \in dbCalls :
       /\ storage = "prisma"
       /\ call.op = "updatePosition"
       /\ call.position.status # "closed"
       /\ positions[call.id].status = "closed"
       /\ dbCallResumes(call)
       => /\ positions'[call.id].status = "closed"
          /\ \A f \in DOMAIN positions[call.id] \ {"lastStatus", "updatedAt"} :
               positions'[call.id][f] = positions[call.id][f]]_vars

\* The owning workflow's change to CLOSED has been written while a
\* reconciliation, which read the position when it was ACTIVE, is still to
\* write its lastStatus.
C40_Witness ==
  /\ storage = "prisma"
  /\ positions[PositionIds[1]].status = "closed"
  /\ \E call \in dbCalls :
       /\ call.op = "updatePosition"
       /\ call.id = PositionIds[1]
       /\ call.position.status = "active"
       /\ call.position.lastStatus.defined

====
